---- MODULE Spec2Model ----
(***************************************************************************)
(* A model of KeyMesh (src/keymesh): the transfer protocol receiver, the   *)
(* server accept loop, the client connector, the per-peer runtime state    *)
(* with its handshake latch, and the transfer engine's send path.          *)
(*                                                                         *)
(* The module holds several specifications, one per subsystem; each one    *)
(* keeps the variables of the other subsystems at their idle values.       *)
(*   SpecRecv    receive_file            (transfer/protocol.py)            *)
(*   SpecLatch   PeerInfo and the gate   (net/conn_state.py, app.py)       *)
(*   SpecServer  _handle_client          (net/server.py)                   *)
(*   SpecClient  _maintain_peer          (net/client.py)                   *)
(*   SpecSession the server and the client on the same peer states         *)
(*   SpecSend    the engine's send path  (transfer/engine.py, protocol.py) *)
(*   SpecE2E     the engine against the server accept loop                 *)
(*   SpecDiff    compare_manifests       (diff.py)                         *)
(*   SpecEngine  one task's retries and cancellation (transfer/engine.py)  *)
(*   SpecStop    SpecEngine with stop()          (transfer/engine.py)      *)
(*   SpecQueue   enqueue, cancel and the snapshot (transfer/engine.py)     *)
(*   SpecFrame   send_json and recv_json         (net/framing.py)          *)
(*   SpecRoute   plan_transfers                  (transfer/router.py)      *)
(*   SpecIndex   build_manifest                  (indexer.py)              *)
(*   SpecOwn     the workers and the task table  (transfer/engine.py)      *)
(*   SpecRestart SpecOwn over restarts of the process                      *)
(*   SpecOwnStop SpecOwn with stop()                                       *)
(*   SpecPair    send_file against receive_file up to the first CHUNK      *)
(*   SpecHandle  the workers and tasks for any peer id                     *)
(***************************************************************************)
EXTENDS Integers, Sequences, FiniteSets, TLC

VARIABLES
    \* ---- receive_file (transfer/protocol.py) ----
    rpc,          \* position of receive_file: off, req, open, loop, done, error
    rErr,         \* the exception receive_file raised ("" while none)
    diskExists,   \* out_path exists
    disk,         \* bytes stored at out_path
    rResume,      \* resume_offset (the parameter, clamped at line 310)
    rMeta,        \* resume_offset carried by the FILE_META sent (-1: none sent)
    rPos,         \* position of the file handle
    rHashed,      \* the bytes fed to whole_hash so far
    rReceived,    \* received_bytes
    rChunks,      \* received_chunks
    rEnd,         \* the FILE_END frame received, or NoFrame
    rAccepted,    \* history: the CHUNK headers whose payload was written:
                  \* [chunk, offset, at], `at` the file position written to
    \* ---- PeerInfo (net/conn_state.py), AppContext.peer_states (app.py) ----
    peer_states,  \* peer id -> PeerInfo record (with its _handshake_event)
    hsCalled,     \* history: mark_handshake has been called on the peer
    hbLog,        \* history: the heartbeats stamped on peer states: by which
                  \* side, on which state, whether the session's HELLO/ACK
                  \* had ended with ok = true, whether the state had been
                  \* through mark_handshake
    wpc,          \* per wait_handshake() call: idle, created, waiting, ready, done
    wTarget,      \* the peer state each wait_handshake() call is made on
    wSuspended,   \* history: the call found the latch unset and suspended
    gate,         \* wait_all_handshakes: idle, waiting, done
    \* ---- configuration (config.py) ----
    cfgFp,        \* peer id -> PeerConfig.cert_fingerprint ("" when absent)
    cfgWhitelist, \* security.fingerprint_whitelist
    \* ---- server accept loop (net/server.py) ----
    conn,         \* accepted connection -> state of its _handle_client task
    \* ---- client connector (net/client.py), one _maintain_peer per peer ----
    cpc,          \* position: off, connect, await_ack, session, failed, sleep
    attempt,      \* the local `attempt` of _maintain_peer
    delay,        \* the local `delay` of _maintain_peer (0 before any sleep)
    cFp,          \* fingerprint of the server certificate of the connection
    cExc,         \* str(exc) of the exception on its way to _maintain_peer
    cHandshook,   \* history: the connection just ended completed the handshake
    consec,       \* history: failed connections since the last successful one
    everOk,       \* history: some connection of the peer completed the handshake
    cSess,        \* the connection: HELLO sent, writer closed, the two halves
    \* ---- transfer engine (transfer/engine.py) and send_file ----
    tPeer,        \* TransferTaskState.peer_id of the task
    tStatus,      \* TransferTaskState.status
    tRetries,     \* TransferTaskState.retries
    tError,       \* TransferTaskState.error
    tBytesDone,   \* TransferTaskState.bytes_done
    inQueue,      \* the task is in the peer's asyncio.Queue
    cancelFlag,   \* the file cancel_<task_id>.flag exists
    progress,     \* the session record: [chunk_id, bytes_done]
    epc,          \* position of the worker
    eFp,          \* history: fingerprint of the certificate the remote end of
                  \* the engine's connection presented (the code never reads it)
    eResume,      \* resume_bytes of _run_task
    eBase,        \* base_chunk of _run_task
    sf,           \* locals of send_file
    audit,        \* statuses of the audit events appended, in order
    eSentOver,    \* history: <<frame type, fingerprint of the connection>>
    max_retries,  \* TransferEngine.max_retries (transfer.max_retries)
    retry_backoff, \* TransferEngine.retry_backoff (transfer.retry_backoff_sec)
    eDelay,       \* the local `delay` of _run_task's last retry (-1: none yet)
    recExists,    \* the session record file of the task's session exists
    partExists,   \* a file <absolute_path>.part exists
    eAttempts,    \* history: number of calls of _send_once for the task
    eFlagWritten, \* history: a cancel flag file was written for the task
    eCancelReturned, \* history: cancel(task_id) has returned True
    eHandled,     \* history: how a worker handled the task's cancellation:
                  \* no (not yet), flag_gone, flag_left
    eStopAt,      \* history: where the worker was when stop() cancelled it
    \* ---- the engine's connection to the server, end to end ----
    eConn,        \* the server-side connection of the engine's connection
    a2b,          \* frames sent by the engine, not yet read by the server
    b2a,          \* frames sent by the server, not yet read by the engine
    \* ---- manifest differ (diff.py) ----
    dLocal,       \* entries of the manifest passed as `local`
    dRemote,      \* entries of the manifest passed as `remote`
    dpc,          \* in: nothing compared; ab: compared; both: also swapped
    dResult,      \* compare_manifests(local, remote)
    dSwapped,     \* compare_manifests(remote, local)
    \* ---- the engine's task table (transfer/engine.py: enqueue, cancel) ----
    task_seq,     \* TransferEngine._task_seq
    tasks,        \* TransferEngine._tasks: task id -> TransferTaskState
    queues,       \* TransferEngine._queues: peer id -> task ids queued
    snapshot,     \* the list last written to queue.json
    enqCalls,     \* history: number of enqueue calls made
    enqLast,      \* history: outcome of the last enqueue call
    enqIds,       \* history: the task ids enqueue returned, in order
    \* ---- framing (net/framing.py) ----
    fWire,        \* the frames written to the stream and not yet read
    fLog,         \* history: each frame read, with what recv_json made of it
    fpc,          \* the stream: off, open, eof (sender gone), failed
    fWritten,     \* number of frames send_json wrote
    \* ---- router (transfer/router.py) ----
    pDiff,        \* diff_result: share -> diff
    pAllowed,     \* allowed_shares
    pPeer,        \* peer_cfg.id
    pTasks,       \* the list plan_transfers returned
    ppc,          \* off, in (arguments chosen), done
    \* ---- indexer (indexer.py) ----
    iTree,        \* the share tree: what is at each place
    iPatterns,    \* the ignore patterns
    iHidden,      \* ignore_hidden
    iEntries,     \* manifest["entries"] (the path of each entry)
    iIgnored,     \* manifest["policy"]["ignore_count"]
    ipc,          \* off, in (arguments chosen), done
    \* ---- the workers of the engine (transfer/engine.py) ----
    max_concurrent, \* TransferEngine.max_concurrent
    wRun,         \* worker -> id of the task whose attempt it runs (0: none)
    oRetries,     \* task id -> state.retries (absent: 0)
    oFlags,       \* the task ids whose cancel flag file exists
    oRequested,   \* history: ids cancel() was called for since the engine
                  \* was built
    oFlagCancelled, \* history: ids a worker's flag check marked cancelled
                  \* since the engine was built
    oStopped      \* stop() has run: _stop_event is set and no worker is left

recvVars == <<rpc, rErr, diskExists, disk, rResume, rMeta, rPos, rHashed,
              rReceived, rChunks, rEnd, rAccepted>>

peerVars == <<peer_states, hsCalled, hbLog>>
waitVars == <<wpc, wTarget, wSuspended, gate>>

cfgVars == <<cfgFp, cfgWhitelist>>
srvVars == <<conn>>
cliVars == <<cpc, attempt, delay, cFp, cExc, cHandshook, consec, everOk,
             cSess>>

engVars == <<tPeer, tStatus, tRetries, tError, tBytesDone, inQueue, cancelFlag,
             progress, epc, eFp, eResume, eBase, sf, audit, eSentOver,
             max_retries, retry_backoff, eDelay, recExists, partExists,
             eAttempts, eFlagWritten, eCancelReturned, eHandled, eStopAt>>
wireVars == <<eConn, a2b, b2a>>
diffVars == <<dLocal, dRemote, dpc, dResult, dSwapped>>
queueVars == <<task_seq, tasks, queues, snapshot, enqCalls, enqLast, enqIds>>

frameVars == <<fWire, fLog, fpc, fWritten>>

\* the variables of the models added for one operation
routeVars == <<pDiff, pAllowed, pPeer, pTasks, ppc>>
indexVars == <<iTree, iPatterns, iHidden, iEntries, iIgnored, ipc>>
ownVars == <<max_concurrent, wRun, oRetries, oFlags, oRequested,
             oFlagCancelled, oStopped>>
auxVars == <<frameVars, routeVars, indexVars, ownVars>>

\* the variables of the stateful subsystems
baseVars == <<recvVars, peerVars, waitVars, cfgVars, srvVars, cliVars,
              engVars, wireVars, diffVars, queueVars>>

vars == <<recvVars, peerVars, waitVars, cfgVars, srvVars, cliVars, engVars,
          wireVars, diffVars, queueVars, auxVars>>

----------------------------------------------------------------------------
(* Bounds of the model. *)

\* longest .part file present before receive_file starts
MaxPartLen == 2
\* largest resume_offset a caller passes
MaxResume == 2
\* longest CHUNK payload
MaxChunkLen == 1
\* most CHUNK frames in one transfer
MaxChunks == 2

Bytes == {1, 2}

SeqsUpTo(S, n) == UNION {[1..k -> S] : k \in 0..n}

NoFrame == [type |-> "NONE"]

----------------------------------------------------------------------------
(* Hashing.  sha256 is modelled as collision free: the digest of a byte    *)
(* string determines the string.                                           *)

Sha256(data) == <<"sha256", data>>

\* a digest that is the digest of no modelled byte string
BadDigest == <<"sha256", <<0>>>>

\* chunker.verify_chunk
verify_chunk(data, expected_hash) == expected_hash = Sha256(data)

----------------------------------------------------------------------------
(* File primitives used by receive_file. *)

Max(a, b) == IF a >= b THEN a ELSE b
Min(a, b) == IF a <= b THEN a ELSE b

\* handle.write(payload) at position pos of a file opened without truncation:
\* bytes from pos on are overwritten, bytes after the written range are kept.
WriteAt(content, pos, payload) ==
    [i \in 1..Max(Len(content), pos + Len(payload)) |->
        IF i > pos /\ i <= pos + Len(payload) THEN payload[i - pos]
        ELSE IF i <= Len(content) THEN content[i]
        ELSE 0]

\* handle.read(n) from position 0
ReadPrefix(content, n) == SubSeq(content, 1, Min(n, Len(content)))

----------------------------------------------------------------------------
(* PeerInfo: the per-peer runtime state and its handshake latch.           *)

\* configured peers (cfg.peers), in configuration order
PeerList == <<"p1", "p2">>
Peers == {PeerList[i] : i \in 1..Len(PeerList)}
\* certificate fingerprints a connection can carry
Fingerprints == {"sha256:aa", "sha256:bb"}

\* wait_handshake() calls made by other tasks than the gate
NumWaiters == 1
ExtraWaiters == 1..NumWaiters
\* one child task of asyncio.gather per entry of peer_states
Children == {NumWaiters + i : i \in 1..Len(PeerList)}
ChildPeer(c) == PeerList[c - NumWaiters]
Waiters == ExtraWaiters \cup Children

Null == "null"
Ts == "ts"

\* PeerInfo as built by AppContext.__init__: _handshake_event is not set
PeerInfoInit ==
    [connected |-> FALSE, last_error |-> Null, last_hello_ts |-> Null,
     last_ack_ts |-> Null, last_heartbeat_ts |-> Null, fingerprint |-> Null,
     handshake_event |-> FALSE]

PeersInit ==
    /\ peer_states = [p \in Peers |-> PeerInfoInit]
    /\ hsCalled = [p \in Peers |-> FALSE]
    /\ hbLog = {}

WaitInit ==
    /\ wpc = [w \in Waiters |-> "idle"]
    /\ wTarget = [w \in Waiters |-> IF w \in Children THEN ChildPeer(w) ELSE Null]
    /\ wSuspended = [w \in Waiters |-> FALSE]
    /\ gate = "idle"

\* mutant: mark_handshake leaves the last error in place
mark_handshake_keeps_error(st, fp) ==
    [st EXCEPT !.connected = TRUE,
               !.last_hello_ts = Ts, !.last_ack_ts = Ts,
               !.last_heartbeat_ts = Ts, !.fingerprint = fp,
               !.handshake_event = TRUE]

\* PeerInfo.mark_handshake: the fields and self._handshake_event.set()
mark_handshake(st, fp) ==
    [st EXCEPT !.connected = TRUE, !.last_error = Null,
               !.last_hello_ts = Ts, !.last_ack_ts = Ts,
               !.last_heartbeat_ts = Ts, !.fingerprint = fp,
               !.handshake_event = TRUE]

\* PeerInfo.mark_heartbeat
mark_heartbeat(st) == [st EXCEPT !.last_heartbeat_ts = Ts]

\* mutant: mark_error also clears the latch
mark_error_clears_latch(st, message) ==
    [st EXCEPT !.last_error = message, !.connected = FALSE,
               !.handshake_event = FALSE]

\* PeerInfo.mark_error
mark_error(st, message) ==
    [st EXCEPT !.last_error = message, !.connected = FALSE]

\* PeerInfo.mark_disconnected
mark_disconnected(st) == [st EXCEPT !.connected = FALSE]

\* PeerInfo.to_dict: the fields read under the lock, with no suspension
\* point between the reads
to_dict(st) ==
    [connected |-> st.connected, last_error |-> st.last_error,
     last_hello_ts |-> st.last_hello_ts, last_ack_ts |-> st.last_ack_ts,
     last_heartbeat_ts |-> st.last_heartbeat_ts,
     fingerprint |-> st.fingerprint]

\* mutant: set() resolves only one pending waiter
EventSetWakesOne(pcs, tgt, p) ==
    LET pending == {w \in Waiters : pcs[w] = "waiting" /\ tgt[w] = p}
    IN [w \in Waiters |->
          IF w \in pending /\ \A v \in pending : w <= v
          THEN "ready" ELSE pcs[w]]

\* asyncio.Event.set(): every pending waiter of the event is resolved
EventSetWakes(pcs, tgt, p) ==
    [w \in Waiters |->
        IF pcs[w] = "waiting" /\ tgt[w] = p THEN "ready" ELSE pcs[w]]

\* asyncio.Event.wait(): returns at once when the event is set, else suspends
EventWait(st) == IF st.handshake_event THEN "done" ELSE "waiting"

\* The mark_* bodies hold no suspension point, so each runs atomically
\* under the per-peer asyncio.Lock.
DoMarkHandshake(p, fp) ==
    /\ peer_states' = [peer_states EXCEPT ![p] = mark_handshake(@, fp)]
    /\ hsCalled' = [hsCalled EXCEPT ![p] = TRUE]
    /\ wpc' = IF peer_states'[p].handshake_event
              THEN EventSetWakes(wpc, wTarget, p) ELSE wpc
    /\ UNCHANGED <<wTarget, wSuspended, gate, hbLog>>

DoMarkHeartbeat(p) ==
    /\ peer_states' = [peer_states EXCEPT ![p] = mark_heartbeat(@)]
    /\ UNCHANGED <<hsCalled, waitVars>>

DoMarkError(p, message) ==
    /\ peer_states' = [peer_states EXCEPT ![p] = mark_error(@, message)]
    /\ UNCHANGED <<hsCalled, hbLog, waitVars>>

DoMarkDisconnected(p) ==
    /\ peer_states' = [peer_states EXCEPT ![p] = mark_disconnected(@)]
    /\ UNCHANGED <<hsCalled, hbLog, waitVars>>

\* Any caller, in any order.
CallMarkHandshake == \E p \in Peers, fp \in Fingerprints : DoMarkHandshake(p, fp)
CallMarkHeartbeat ==
    \E p \in Peers : DoMarkHeartbeat(p) /\ UNCHANGED hbLog
CallMarkError == \E p \in Peers : DoMarkError(p, "error")
CallMarkDisconnected == \E p \in Peers : DoMarkDisconnected(p)

\* PeerInfo.wait_handshake called by some task on peer p
WaitCall(w, p) ==
    /\ wpc[w] = "idle"
    /\ wTarget' = [wTarget EXCEPT ![w] = p]
    /\ wpc' = [wpc EXCEPT ![w] = EventWait(peer_states[p])]
    /\ wSuspended' = [wSuspended EXCEPT ![w] = (wpc'[w] = "waiting")]
    /\ UNCHANGED <<peerVars, gate>>

\* the event loop resumes a waiter whose future was resolved
WaitResume(w) ==
    /\ wpc[w] = "ready"
    /\ wpc' = [wpc EXCEPT ![w] = "done"]
    /\ UNCHANGED <<peerVars, wTarget, wSuspended, gate>>

\* AppContext.wait_all_handshakes: gather creates one task per peer state
GateCall ==
    /\ gate = "idle"
    /\ gate' = "waiting"
    /\ wpc' = [w \in Waiters |-> IF w \in Children THEN "created" ELSE wpc[w]]
    /\ UNCHANGED <<peerVars, wTarget, wSuspended>>

\* a child task of gather starts running state.wait_handshake()
ChildStart(c) ==
    /\ wpc[c] = "created"
    /\ wpc' = [wpc EXCEPT ![c] = EventWait(peer_states[wTarget[c]])]
    /\ wSuspended' = [wSuspended EXCEPT ![c] = (wpc'[c] = "waiting")]
    /\ UNCHANGED <<peerVars, wTarget, gate>>

\* mutant: the outer future completes with the first child
GatherDoneFirst(pcs) == \E c \in Children : pcs[c] = "done"

\* asyncio.gather: the outer future completes when every child has
GatherDone(pcs) == \A c \in Children : pcs[c] = "done"

GateFinish ==
    /\ gate = "waiting"
    /\ GatherDone(wpc)
    /\ gate' = "done"
    /\ UNCHANGED <<peerVars, wpc, wTarget, wSuspended>>

ExtraWaitCall == \E w \in ExtraWaiters, p \in Peers : WaitCall(w, p)
AnyWaitResume == \E w \in Waiters : WaitResume(w)
AnyChildStart == \E c \in Children : ChildStart(c)

----------------------------------------------------------------------------
(* Configuration as load_config builds it. *)

\* str.strip().lower() on the whitelist entries a configuration may hold
Normalize(entry) ==
    CASE entry = " SHA256:BB " -> "sha256:bb"
      [] OTHER -> entry

\* raw fingerprint_whitelist entries of the configuration file
RawWhitelistEntries == {"sha256:aa", " SHA256:BB "}

\* load_config line 157: the whitelist is normalised when loaded
LoadWhitelist(raw) == {Normalize(e) : e \in raw}

\* any configuration: each peer with or without cert_fingerprint
CfgAny ==
    /\ cfgFp \in [Peers -> Fingerprints \cup {""}]
    /\ cfgWhitelist \in {LoadWhitelist(raw) : raw \in SUBSET RawWhitelistEntries}

\* one fixed configuration, for the specifications that do not read it
CfgFixed ==
    /\ cfgFp = [p \in Peers |-> ""]
    /\ cfgWhitelist = {}

\* peers[].shares_access
Shares == {"docs"}
cfgShares == [p \in Peers |-> IF p = "p1" THEN {"docs"} ELSE {}]

\* AppContext.get_peer_config
get_peer_config(peer_id) == IF peer_id \in Peers THEN peer_id ELSE Null

\* AppContext.get_peer_by_fingerprint: the dict is keyed by the non-empty
\* cert_fingerprint values; of two peers with one fingerprint the later wins
get_peer_by_fingerprint(fingerprint) ==
    LET idx == {i \in 1..Len(PeerList) :
                   cfgFp[PeerList[i]] # "" /\ cfgFp[PeerList[i]] = fingerprint}
    IN IF idx = {} THEN Null
       ELSE PeerList[CHOOSE i \in idx : \A j \in idx : j <= i]

\* AppContext.get_allowed_shares_for_peer
get_allowed_shares_for_peer(peer_id) ==
    IF peer_id \in Peers THEN cfgShares[peer_id] ELSE {}

\* mtls.fingerprint_in_whitelist
fingerprint_in_whitelist(fingerprint, whitelist) ==
    \E entry \in whitelist : Normalize(fingerprint) = Normalize(entry)

----------------------------------------------------------------------------
(* Handshake messages (proto/handshake.py). *)

PROTO_VERSION == "0.2"

\* a JSON value that is not a string
NotStr == "<not a string>"

\* version.split(".")[0]
MajorOf(version) ==
    CASE version = "0.2" -> "0"
      [] version = "0.7" -> "0"
      [] version = "1.0" -> "1"
      [] OTHER -> version

NodeIds == Peers \cup {"px"}

\* first frames a client can send
HelloFrames ==
    [type : {"HELLO", "HEARTBEAT"},
     node_id : NodeIds \cup {NotStr},
     version : {"0.2", "0.7", "1.0", NotStr},
     caps_ok : BOOLEAN]

\* handshake.validate_hello: TRUE when it returns, FALSE when it raises
\* ValueError
validate_hello(msg) ==
    /\ msg.type = "HELLO"
    /\ msg.node_id # NotStr
    /\ msg.version # NotStr
    /\ msg.caps_ok

\* node.id of the node that runs the server
ServerNodeId == PeerList[2]

\* handshake.build_ack
build_ack(ok, reason, allowed_shares) ==
    [type |-> "ACK", ok |-> ok, reason |-> reason, peer_id |-> ServerNodeId,
     shares |-> allowed_shares]

NoAck == [type |-> "NONE", ok |-> FALSE, reason |-> Null, peer_id |-> Null,
          shares |-> {}]

----------------------------------------------------------------------------
(* Server accept loop: one _handle_client task per accepted connection.    *)

\* connections accepted over the run
NumConns == 2
Conns == 1..NumConns

ConnFree ==
    [pc |-> "free", fp |-> Null, peer_cfg |-> Null, peer_state |-> Null,
     matched_by |-> Null, hello_ok |-> FALSE, ack |-> NoAck,
     closed |-> FALSE, marked |-> FALSE, error_message |-> Null]

SrvInit == conn = [c \in Conns |-> ConnFree]

\* lines 22-42: the TLS connection is accepted; without a client certificate
\* the writer is closed at once, else the peer is looked up by fingerprint.
SrvAccept(c, fingerprint) ==
    /\ conn[c].pc = "free"
    /\ IF fingerprint = Null
       THEN conn' = [conn EXCEPT ![c].pc = "closed", ![c].closed = TRUE]
       ELSE LET peer_cfg == get_peer_by_fingerprint(fingerprint)
            IN conn' = [conn EXCEPT ![c].pc = "await_hello",
                                    ![c].fp = fingerprint,
                                    ![c].peer_cfg = peer_cfg,
                                    ![c].peer_state = peer_cfg,
                                    ![c].matched_by =
                                        IF peer_cfg # Null THEN "fingerprint"
                                        ELSE Null]
    /\ UNCHANGED <<peerVars, waitVars>>

\* the connection is refused: ACK ok=false is sent and the writer is closed
SrvReject(c, reason, peer_cfg, matched_by, hello_ok) ==
    conn' = [conn EXCEPT ![c].pc = "closed",
                         ![c].ack = build_ack(FALSE, reason, {}),
                         ![c].closed = TRUE,
                         ![c].peer_cfg = peer_cfg,
                         ![c].peer_state = peer_cfg,
                         ![c].matched_by = matched_by,
                         ![c].hello_ok = hello_ok]

\* lines 63-86: the authorization decision for a valid HELLO of a matching
\* major version: "ok", or the reason of the refusal
Authorize(peer_cfg, fingerprint, allowed_by_whitelist) ==
    IF peer_cfg = Null
    THEN IF ~allowed_by_whitelist THEN "unknown peer"
         ELSE "peer not configured"
    ELSE IF cfgFp[peer_cfg] # "" /\ cfgFp[peer_cfg] # fingerprint
         THEN "fingerprint mismatch"
         ELSE "ok"

\* lines 43-89: the first frame is read (kind "timeout": none within the
\* deadline, "proto": recv_json raised ProtocolError, "frame": msg) and
\* answered.
SrvHello(c, kind, msg) ==
    /\ conn[c].pc = "await_hello"
    /\ LET me == conn[c]
           allowed_by_whitelist == fingerprint_in_whitelist(me.fp, cfgWhitelist)
           by_id == IF me.peer_cfg = Null THEN get_peer_config(msg.node_id)
                    ELSE me.peer_cfg
           how == IF me.peer_cfg # Null THEN "fingerprint"
                  ELSE IF by_id # Null THEN "node_id" ELSE Null
           verdict == Authorize(by_id, me.fp, allowed_by_whitelist)
       IN
       IF kind # "frame"
       THEN \* except (ProtocolError, asyncio.TimeoutError)
            /\ SrvReject(c, "invalid HELLO", me.peer_cfg, me.matched_by, FALSE)
            /\ UNCHANGED peerVars
       ELSE IF ~validate_hello(msg)
       THEN \* ValueError is not caught: the task ends with the exception,
            \* nothing is sent and the writer is not closed by the handler
            /\ conn' = [conn EXCEPT ![c].pc = "crashed"]
            /\ UNCHANGED peerVars
       ELSE IF MajorOf(PROTO_VERSION) # MajorOf(msg.version)
       THEN /\ SrvReject(c, "incompatible version", me.peer_cfg,
                         me.matched_by, TRUE)
            /\ IF me.peer_state # Null
               THEN /\ peer_states' = [peer_states EXCEPT ![me.peer_state] =
                                          mark_error(@, "version mismatch")]
                    /\ UNCHANGED <<hsCalled, hbLog>>
               ELSE UNCHANGED peerVars
       ELSE IF verdict # "ok"
       THEN /\ SrvReject(c, verdict, by_id, how, TRUE)
            /\ IF verdict = "fingerprint mismatch"
               THEN /\ peer_states' = [peer_states EXCEPT ![by_id] =
                                          mark_error(@, "fingerprint mismatch")]
                    /\ UNCHANGED <<hsCalled, hbLog>>
               ELSE UNCHANGED peerVars
       ELSE /\ conn' = [conn EXCEPT
                  ![c].pc = "acked",
                  ![c].peer_cfg = by_id,
                  ![c].peer_state = by_id,
                  ![c].matched_by = how,
                  ![c].hello_ok = TRUE,
                  ![c].ack = build_ack(TRUE, Null,
                                       get_allowed_shares_for_peer(by_id))]
            /\ UNCHANGED peerVars
    /\ UNCHANGED waitVars

\* mutant: the serving loop is entered without mark_handshake
SrvMarkHandshakeSkipped(c) ==
    /\ conn[c].pc = "acked"
    /\ conn' = [conn EXCEPT ![c].pc = "serving", ![c].marked = TRUE]
    /\ UNCHANGED <<peerVars, waitVars>>

\* lines 91-101: the handshake is stamped on the peer state
SrvMarkHandshake(c) ==
    /\ conn[c].pc = "acked"
    /\ conn' = [conn EXCEPT ![c].pc = "serving", ![c].marked = TRUE]
    /\ peer_states' = [peer_states EXCEPT ![conn[c].peer_state] =
                          mark_handshake(@, conn[c].fp)]
    /\ hsCalled' = [hsCalled EXCEPT ![conn[c].peer_state] = TRUE]
    /\ wpc' = IF peer_states'[conn[c].peer_state].handshake_event
              THEN EventSetWakes(wpc, wTarget, conn[c].peer_state) ELSE wpc
    /\ UNCHANGED <<wTarget, wSuspended, gate, hbLog>>

\* frames read in the serving loop
ServeFrames == {"HEARTBEAT", "FILE_REQ"}

\* lines 105-118: one frame of the serving loop.  HEARTBEAT stamps the peer
\* state; any other type is logged and ignored, nothing is sent back.
SrvServeFrame(c, frame) ==
    /\ conn[c].pc = "serving"
    /\ frame \in ServeFrames
    /\ IF frame = "HEARTBEAT"
       THEN /\ peer_states' = [peer_states EXCEPT ![conn[c].peer_state] =
                                  mark_heartbeat(@)]
            /\ hbLog' = hbLog \cup
                  {[side |-> "server", peer |-> conn[c].peer_state,
                    ok |-> conn[c].hello_ok /\ conn[c].ack.ok,
                    marked |-> hsCalled[conn[c].peer_state]]}
            /\ UNCHANGED hsCalled
       ELSE UNCHANGED peerVars
    /\ UNCHANGED <<conn, waitVars>>

\* str(exc) of the exception that ends the serving loop
ErrorMessageOf(cause) ==
    CASE cause = "timeout" -> ""
      [] cause = "proto" -> "unexpected EOF while reading frame length"
      [] cause = "bad_heartbeat" -> "heartbeat.ts must be integer"
      [] OTHER -> Null

\* lines 107-110 and 119-124: the serving loop ends: a read timed out after
\* 3 * heartbeat_sec, recv_json or validate_heartbeat raised, or the task was
\* cancelled.
SrvServeEnd(c, cause) ==
    /\ conn[c].pc = "serving"
    /\ cause \in {"timeout", "proto", "bad_heartbeat", "cancelled"}
    /\ conn' = [conn EXCEPT ![c].pc = "closing",
                            ![c].error_message = ErrorMessageOf(cause)]
    /\ UNCHANGED <<peerVars, waitVars>>

\* lines 125-136: finally: the writer is closed and the peer state updated;
\* `if error_message:` is false for None and for the empty string
SrvClosing(c) ==
    /\ conn[c].pc = "closing"
    /\ conn' = [conn EXCEPT ![c].pc = "closed", ![c].closed = TRUE]
    /\ peer_states' = [peer_states EXCEPT ![conn[c].peer_state] =
          IF conn[c].error_message \notin {Null, ""}
          THEN mark_error(@, conn[c].error_message)
          ELSE mark_disconnected(@)]
    /\ UNCHANGED <<hsCalled, hbLog, waitVars>>

----------------------------------------------------------------------------
(* Client connector: one _maintain_peer task per configured peer.          *)

\* connectivity.backoff (the default of load_config)
Backoff == <<1, 3, 10, 30>>

\* exceptions handled by one _maintain_peer task over the run
MaxAttempt == 5

\* _maintain_peer tasks running (ClientConnector.run starts one per peer;
\* the tasks share nothing but the configuration)
NumClientTasks == 1
ClientPeers == {PeerList[i] : i \in 1..NumClientTasks}

\* a connection before open_connection returned: nothing sent, no half started
NoSession ==
    [hello |-> FALSE, closed |-> FALSE, check |-> Null, ack |-> <<>>,
     sender |-> "none", receiver |-> "none", lost |-> FALSE,
     disconnected |-> FALSE]

CliIdle ==
    /\ cpc = [p \in Peers |-> "off"]
    /\ attempt = [p \in Peers |-> 0]
    /\ delay = [p \in Peers |-> 0]
    /\ cFp = [p \in Peers |-> Null]
    /\ cExc = [p \in Peers |-> Null]
    /\ cHandshook = [p \in Peers |-> FALSE]
    /\ consec = [p \in Peers |-> 0]
    /\ everOk = [p \in Peers |-> FALSE]
    /\ cSess = [p \in Peers |-> NoSession]

\* lines 52-55: each task starts with attempt = 0
CliInit ==
    /\ cpc = [p \in Peers |-> IF p \in ClientPeers THEN "connect" ELSE "off"]
    /\ attempt = [p \in Peers |-> 0]
    /\ delay = [p \in Peers |-> 0]
    /\ cFp = [p \in Peers |-> Null]
    /\ cExc = [p \in Peers |-> Null]
    /\ cHandshook = [p \in Peers |-> FALSE]
    /\ consec = [p \in Peers |-> 0]
    /\ everOk = [p \in Peers |-> FALSE]
    /\ cSess = [p \in Peers |-> NoSession]

\* mutant: a peer without a pinned fingerprint is not checked at all
ClientFingerprintCheckPinnedOnly(p, fingerprint) ==
    IF cfgFp[p] # "" /\ cfgFp[p] # fingerprint
    THEN "fingerprint mismatch" ELSE "ok"

\* lines 90-98: the client-side check of the server certificate
ClientFingerprintCheck(p, fingerprint) ==
    IF cfgFp[p] # ""
    THEN IF cfgFp[p] # fingerprint THEN "fingerprint mismatch" ELSE "ok"
    ELSE IF ~fingerprint_in_whitelist(fingerprint, cfgWhitelist)
         THEN "fingerprint not allowed" ELSE "ok"

\* ACK frames a server can answer; typed_ok: ok is a boolean, reason a
\* string or null and capabilities a well-formed object
AckFrames ==
    [type : {"ACK", "HEARTBEAT"}, ok : BOOLEAN,
     peer_id : NodeIds \cup {NotStr}, typed_ok : BOOLEAN,
     shares : SUBSET Shares]

\* handshake.validate_ack: TRUE when it returns, FALSE when it raises
\* ValueError
validate_ack(msg) ==
    /\ msg.type = "ACK"
    /\ msg.typed_ok
    /\ msg.peer_id # NotStr

\* _connect_once raises: the exception travels to _maintain_peer
CliRaise(p, message) ==
    /\ cpc' = [cpc EXCEPT ![p] = "failed"]
    /\ cExc' = [cExc EXCEPT ![p] = message]

\* lines 74-102: open the TLS connection, check the server fingerprint and
\* send HELLO.  result: how open_connection ended.  The writer is closed
\* before the raise at lines 86, 92 and 96.
CliConnect(p, result, fingerprint) ==
    /\ cpc[p] = "connect"
    /\ result \in {"timeout", "refused", "no_ssl", "connected"}
    /\ LET check == ClientFingerprintCheck(p, fingerprint)
       IN IF result = "timeout"
          THEN /\ CliRaise(p, "") /\ UNCHANGED cFp
               /\ cSess' = [cSess EXCEPT ![p] = NoSession]
          ELSE IF result = "refused"
          THEN /\ CliRaise(p, "connection refused") /\ UNCHANGED cFp
               /\ cSess' = [cSess EXCEPT ![p] = NoSession]
          ELSE IF result = "no_ssl"
          THEN /\ CliRaise(p, "TLS handshake missing ssl_object")
               /\ UNCHANGED cFp
               /\ cSess' = [cSess EXCEPT ![p] =
                               [NoSession EXCEPT !.closed = TRUE]]
          ELSE IF check # "ok"
          THEN /\ CliRaise(p, check) /\ UNCHANGED cFp
               /\ cSess' = [cSess EXCEPT ![p] =
                               [NoSession EXCEPT !.closed = TRUE,
                                                 !.check = check]]
          ELSE /\ cpc' = [cpc EXCEPT ![p] = "await_ack"]
               /\ cFp' = [cFp EXCEPT ![p] = fingerprint]
               /\ cSess' = [cSess EXCEPT ![p] =
                               [NoSession EXCEPT !.hello = TRUE,
                                                 !.check = check]]
               /\ UNCHANGED cExc
    /\ cHandshook' = [cHandshook EXCEPT ![p] = FALSE]
    /\ UNCHANGED <<attempt, delay, consec, everOk, peerVars, waitVars>>

\* lines 104-123: the answer to HELLO is read (kind "timeout", "proto" or
\* "frame") and checked; a refused ACK closes the writer (lines 107, 111);
\* a good ACK stamps the handshake on the peer state and _connection_loop
\* creates the sender and the receiver task (lines 163-164).
CliAck(p, kind, ack) ==
    /\ cpc[p] = "await_ack"
    /\ IF kind = "timeout" \/ kind = "proto" \/ ~validate_ack(ack)
          \/ ~ack.ok \/ ack.peer_id # p
       THEN /\ CliRaise(p, IF kind = "timeout" THEN ""
                           ELSE IF kind = "proto" THEN "unexpected EOF"
                           ELSE IF ~validate_ack(ack) THEN "invalid ACK"
                           ELSE IF ~ack.ok THEN "handshake rejected"
                           ELSE "peer id mismatch")
            /\ cSess' = [cSess EXCEPT ![p].closed =
                            kind = "frame" /\ validate_ack(ack)]
            /\ UNCHANGED <<cHandshook, consec, everOk, peerVars, waitVars>>
       ELSE /\ cpc' = [cpc EXCEPT ![p] = "session"]
            /\ cHandshook' = [cHandshook EXCEPT ![p] = TRUE]
            /\ consec' = [consec EXCEPT ![p] = 0]
            /\ everOk' = [everOk EXCEPT ![p] = TRUE]
            /\ cSess' = [cSess EXCEPT ![p].ack = <<ack>>,
                                      ![p].sender = "running",
                                      ![p].receiver = "running"]
            /\ DoMarkHandshake(p, cFp[p])
            /\ UNCHANGED cExc
    /\ UNCHANGED <<attempt, delay, cFp>>

\* lines 138-161: one round of sender() or receiver(), while that task is
\* still running: a heartbeat sent or received stamps the peer state, any
\* other frame is logged and ignored, a read timeout is swallowed (line 152)
CliSessionStep(p, what) ==
    /\ cpc[p] = "session"
    /\ what \in {"heartbeat_sent", "heartbeat_received", "other_received",
                 "read_timeout"}
    /\ IF what = "heartbeat_sent" THEN cSess[p].sender = "running"
       ELSE cSess[p].receiver = "running"
    /\ IF what \in {"heartbeat_sent", "heartbeat_received"}
       THEN /\ DoMarkHeartbeat(p)
            /\ hbLog' = hbLog \cup
                  {[side |-> "client", peer |-> p, ok |-> cHandshook[p],
                    marked |-> hsCalled[p]]}
       ELSE UNCHANGED <<peerVars, waitVars>>
    /\ UNCHANGED cliVars

\* what a half can raise: send_json fails on a lost connection (line 142);
\* recv_json raises the connection error or a ProtocolError (lines 150-154);
\* validate_heartbeat raises ValueError (line 156)
HalfCauses ==
    {"send failed", "connection reset", "protocol error", "invalid heartbeat"}
\* the causes that come with a transport whose connection_lost(exc) ran
LostCauses == {"send failed", "connection reset"}

\* one of the two tasks ends with an exception; the other one, and the
\* task waiting in asyncio.wait (line 166), have not run yet
CliHalfRaise(p, half, cause) ==
    /\ cpc[p] = "session"
    /\ cause \in HalfCauses
    /\ \/ half = "sender" /\ cause = "send failed"
          /\ cSess[p].sender = "running"
          /\ cSess' = [cSess EXCEPT ![p].sender = cause, ![p].lost = TRUE]
       \/ half = "receiver" /\ cause # "send failed"
          /\ cSess[p].receiver = "running"
          /\ cSess' = [cSess EXCEPT ![p].receiver = cause,
                          ![p].lost = @ \/ cause \in LostCauses]
    /\ UNCHANGED <<cpc, attempt, delay, cFp, cExc, cHandshook, consec, everOk,
                   peerVars, waitVars>>

\* writer.wait_closed() (line 183) raises the exception the connection was
\* lost with
WaitClosedRaises(sess) == sess.lost

\* the exception of the first finished task in the order of line 170
FirstException(sess) ==
    IF sess.sender \in HalfCauses THEN sess.sender ELSE sess.receiver

\* lines 166-186: asyncio.wait(FIRST_EXCEPTION) returns once a half raised;
\* the exception is raised again at line 172; the finally block cancels and
\* awaits both halves, closes the writer and awaits wait_closed(); when that
\* raises, mark_disconnected (line 185) is skipped and the new exception is
\* the one that leaves _connect_once.
CliSessionEnd(p) ==
    /\ cpc[p] = "session"
    /\ cSess[p].sender \in HalfCauses \/ cSess[p].receiver \in HalfCauses
    /\ LET cancel(h) == IF h = "running" THEN "cancelled" ELSE h
           raises == WaitClosedRaises(cSess[p])
       IN /\ cSess' = [cSess EXCEPT ![p].sender = cancel(@),
                                    ![p].receiver = cancel(@),
                                    ![p].closed = TRUE,
                                    ![p].disconnected = ~raises]
          /\ IF raises
             THEN /\ CliRaise(p, "connection lost")
                  /\ UNCHANGED <<peerVars, waitVars>>
             ELSE /\ CliRaise(p, FirstException(cSess[p]))
                  /\ DoMarkDisconnected(p)
    /\ UNCHANGED <<attempt, delay, cFp, cHandshook, consec, everOk>>

\* lines 61-67: every exception of _connect_once is handled the same way:
\* mark_error, delay = backoff[min(attempt, len(backoff) - 1)], attempt += 1.
\* Line 58 (attempt = 0) and lines 68-69 run only when _connect_once returns,
\* which it never does: its last statement awaits _connection_loop.
CliHandleFailure(p) ==
    /\ cpc[p] = "failed"
    /\ attempt[p] < MaxAttempt
    /\ DoMarkError(p, cExc[p])
    /\ delay' = [delay EXCEPT ![p] =
                    Backoff[Min(attempt[p], Len(Backoff) - 1) + 1]]
    /\ attempt' = [attempt EXCEPT ![p] = @ + 1]
    /\ consec' = [consec EXCEPT ![p] = IF cHandshook[p] THEN @ ELSE @ + 1]
    /\ cpc' = [cpc EXCEPT ![p] = "sleep"]
    /\ UNCHANGED <<cFp, cExc, cHandshook, everOk, cSess>>

\* line 67: the sleep is over, the loop calls _connect_once again
CliWake(p) ==
    /\ cpc[p] = "sleep"
    /\ cpc' = [cpc EXCEPT ![p] = "connect"]
    /\ cFp' = [cFp EXCEPT ![p] = Null]
    /\ cExc' = [cExc EXCEPT ![p] = Null]
    /\ cSess' = [cSess EXCEPT ![p] = NoSession]
    /\ UNCHANGED <<attempt, delay, cHandshook, consec, everOk,
                   peerVars, waitVars>>


----------------------------------------------------------------------------
(* Transfer engine: one worker of the task's peer runs one push task.      *)

\* the source file of the task and the configured chunk size in bytes
SrcFile == <<1, 2>>
ChunkSize == 1

\* transfer.max_retries, used by _run_task and handed to send_file
MaxRetries == 1
\* largest transfer.max_retries a configuration of the retry model holds
MaxRetriesDrawn == 2
\* the lists transfer.retry_backoff_sec holds: none, one delay, and two
\* delays of which the first is zero
OneDelay == <<2>>
BackoffLists == {<<>>, OneDelay, <<0, 3>>}

\* largest bytes_done a session record of an earlier run holds
MaxSavedBytes == 1

\* peers a task can name: a configured one and an unknown one
TaskPeers == {PeerList[2], "px"}
TaskShare == "docs"

\* the bytes handle.read(chunk_size) returns at position pos
ReadChunk(pos) ==
    IF pos >= Len(SrcFile) THEN <<>>
    ELSE SubSeq(SrcFile, pos + 1, Min(pos + ChunkSize, Len(SrcFile)))

\* resent and slept are history: how often the current chunk was sent again
\* and the delays send_file computed before those resends, in order; log is
\* history too: the answers send_file accepted and the frames it sent (a
\* chunk is logged when it is first sent), in order
SfIdle == [start_offset |-> 0, sent_bytes |-> 0, sent_chunks |-> 0,
           chunk_index |-> 0, attempt |-> 0, resent |-> 0, slept |-> <<>>,
           log |-> <<>>]

\* an entry of the log: the frame type, and the chunk id, offset and status
\* the frame carries (-1 and "" where it carries none)
LogEntry(type, chunk, offset, status) ==
    [type |-> type, chunk |-> chunk, offset |-> offset, status |-> status]

\* protocol.py lines 152-160 and 210-219: the frame send_file sends at
\* position sent_bytes with chunk id chunk_index
SentEntry(sent_bytes, chunk_index) ==
    IF ReadChunk(sent_bytes) = <<>>
    THEN LogEntry("FILE_END sent", -1, -1, "")
    ELSE LogEntry("CHUNK sent", chunk_index, sent_bytes, "")

WireIdle == eConn = 0 /\ a2b = <<>> /\ b2a = <<>>

\* the history variables of a task nobody touched yet
EngHistoryInit ==
    /\ eDelay = -1 /\ eAttempts = 0 /\ eFlagWritten = FALSE
    /\ eCancelReturned = FALSE /\ eHandled = "no" /\ eStopAt = "none"

EngIdle ==
    /\ tPeer = PeerList[2] /\ tStatus = "queued" /\ tRetries = 0
    /\ tError = Null /\ tBytesDone = 0 /\ inQueue = FALSE
    /\ cancelFlag = FALSE /\ progress = [chunk_id |-> 0, bytes_done |-> 0]
    /\ epc = "off" /\ eFp = Null /\ eResume = 0 /\ eBase = 0 /\ sf = SfIdle
    /\ audit = <<>> /\ eSentOver = {}
    /\ max_retries = MaxRetries /\ retry_backoff = <<>>
    /\ recExists = FALSE /\ partExists = FALSE
    /\ EngHistoryInit
    /\ WireIdle

\* lines 54-73 and 103-138: the engine is built from a configuration with
\* max_retries in `retries` and retry_backoff in `backoffs`, and enqueue has
\* run: the task is queued with bytes_done of the session record an earlier
\* run left (none: zeros); `parts` says whether a file <absolute_path>.part
\* lies next to the source file
EngInit(peers, retries, backoffs, parts) ==
    /\ tPeer \in peers /\ tStatus = "queued" /\ tRetries = 0
    /\ tError = Null /\ inQueue = TRUE /\ cancelFlag = FALSE
    /\ \E b \in 0..MaxSavedBytes :
          progress = [chunk_id |-> b \div ChunkSize, bytes_done |-> b]
    /\ recExists = (progress.bytes_done > 0)
    /\ partExists \in parts
    /\ tBytesDone = progress.bytes_done
    /\ epc = "idle" /\ eFp = Null /\ eResume = 0 /\ eBase = 0 /\ sf = SfIdle
    /\ audit = <<>> /\ eSentOver = {}
    /\ max_retries \in retries /\ retry_backoff \in backoffs
    /\ EngHistoryInit
    /\ WireIdle

\* cli.py line 462: `cancel` creates the flag file of the task
EngCancelRequest ==
    /\ ~cancelFlag
    /\ epc \notin {"off", "done"}
    /\ cancelFlag' = TRUE
    /\ eFlagWritten' = TRUE
    /\ UNCHANGED <<tPeer, tStatus, tRetries, tError, tBytesDone, inQueue,
                   progress, epc, eFp, eResume, eBase, sf, audit, eSentOver>>
    /\ UNCHANGED <<max_retries, retry_backoff, eDelay, recExists, partExists,
                   eAttempts, eCancelReturned, eHandled, eStopAt>>

\* the positions at which the worker is suspended in an await, so that
\* another coroutine of the event loop runs: queue.get (line 144), the
\* network awaits of _send_once and send_file, writer.wait_closed (line
\* 285), asyncio.sleep (line 205); and after the worker is through
EngSuspended ==
    epc \in {"idle", "connect", "await_ack", "await_meta", "await_chunk_ack",
             "await_end", "raised", "retry_sleep", "done"}

\* lines 307-316: cancel(task_id) of a task in the table: mark cancelled,
\* persist, write the flag file, return True
EngCancel ==
    /\ EngSuspended
    /\ tStatus' = "cancelled"
    \* while an exception is on its way to line 191, tError holds the
    \* message line 193 will store
    /\ tError' = IF epc = "raised" THEN tError ELSE Null
    /\ cancelFlag' = TRUE
    /\ eFlagWritten' = TRUE
    /\ eCancelReturned' = TRUE
    /\ UNCHANGED <<tPeer, tRetries, tBytesDone, inQueue, progress, epc, eFp,
                   eResume, eBase, sf, audit, eSentOver>>
    /\ UNCHANGED <<max_retries, retry_backoff, eDelay, recExists, partExists,
                   eAttempts, eHandled, eStopAt>>

\* the positions at which a task of the worker is in flight: in a transfer
\* attempt (lines 186-187) or in its retry backoff sleep (line 205)
EngInFlight ==
    {"connect", "await_ack", "await_meta", "await_chunk_ack", "await_end",
     "raised", "retry_sleep"}

\* lines 297-302: stop() sets the stop event, cancels the worker and waits
\* for it.  The CancelledError is raised at the await the worker is
\* suspended in: at queue.get (line 144) the worker just ends; inside
\* _send_once it reaches the handler of lines 188-190, which marks the task
\* cancelled; in the sleep of line 205 it is raised inside the handler of
\* line 191, past the handler of line 188, and the task keeps the status
\* line 193 gave it.
EngStop ==
    /\ EngSuspended
    /\ eStopAt' = epc
    /\ epc' = "stopped"
    /\ IF epc \in EngInFlight \ {"retry_sleep"}
       THEN tStatus' = "cancelled" /\ tError' = Null
       ELSE UNCHANGED <<tStatus, tError>>
    /\ UNCHANGED <<tPeer, tRetries, tBytesDone, inQueue, cancelFlag, progress,
                   eFp, eResume, eBase, sf, audit, eSentOver>>
    /\ UNCHANGED <<max_retries, retry_backoff, eDelay, recExists, partExists,
                   eAttempts, eFlagWritten, eCancelReturned, eHandled>>

\* lines 142-157: the worker takes the task from the queue; a cancelled task
\* is dropped, a flagged one is marked cancelled, else _run_task is called
EngWorkerGet ==
    /\ epc = "idle" /\ inQueue
    /\ inQueue' = FALSE
    /\ IF tStatus = "cancelled"
       THEN /\ UNCHANGED <<tStatus, tError, cancelFlag>>
            /\ epc' = "done"
            /\ eHandled' = IF cancelFlag THEN "flag_left" ELSE "flag_gone"
       ELSE IF cancelFlag
       THEN /\ cancelFlag' = FALSE
            /\ tStatus' = "cancelled" /\ tError' = Null
            /\ epc' = "done"
            /\ eHandled' = "flag_gone"
       ELSE UNCHANGED <<tStatus, tError, cancelFlag, eHandled>> /\ epc' = "run"
    /\ UNCHANGED <<tPeer, tRetries, tBytesDone, progress, eFp, eResume, eBase,
                   sf, audit, eSentOver>>
    /\ UNCHANGED <<max_retries, retry_backoff, eDelay, recExists, partExists,
                   eAttempts, eFlagWritten, eCancelReturned, eStopAt>>

\* mutant: _run_task does not look at the flag file before it connects
EngRunTaskNoFlagCheck ==
    /\ epc = "run"
    /\ eResume' = Min(progress.bytes_done, Len(SrcFile))
    /\ eBase' = progress.chunk_id
    /\ IF get_peer_config(tPeer) = Null
       THEN /\ tStatus' = "failed" /\ tError' = "peer not configured"
            /\ epc' = "done"
            /\ UNCHANGED <<cancelFlag, eHandled, eAttempts>>
       ELSE /\ tStatus' = "running" /\ tError' = Null
            /\ epc' = "connect"
            /\ eAttempts' = eAttempts + 1
            /\ UNCHANGED <<cancelFlag, eHandled>>
    /\ UNCHANGED <<tPeer, tRetries, tBytesDone, inQueue, progress, eFp, sf,
                   audit, eSentOver>>
    /\ UNCHANGED <<max_retries, retry_backoff, eDelay, recExists, partExists,
                   eFlagWritten, eCancelReturned, eStopAt>>

\* lines 161-185: _run_task up to the call of _send_once
EngRunTask ==
    /\ epc = "run"
    /\ eResume' = Min(progress.bytes_done, Len(SrcFile))
    /\ eBase' = progress.chunk_id
    /\ IF cancelFlag
       THEN /\ cancelFlag' = FALSE
            /\ tStatus' = "cancelled" /\ tError' = Null
            /\ epc' = "done"
            /\ eHandled' = "flag_gone"
            /\ UNCHANGED eAttempts
       ELSE IF get_peer_config(tPeer) = Null
       THEN /\ tStatus' = "failed" /\ tError' = "peer not configured"
            /\ epc' = "done"
            /\ UNCHANGED <<cancelFlag, eHandled, eAttempts>>
       ELSE /\ tStatus' = "running" /\ tError' = Null
            /\ epc' = "connect"
            /\ eAttempts' = eAttempts + 1
            /\ UNCHANGED <<cancelFlag, eHandled>>
    /\ UNCHANGED <<tPeer, tRetries, tBytesDone, inQueue, progress, eFp, sf,
                   audit, eSentOver>>
    /\ UNCHANGED <<max_retries, retry_backoff, eDelay, recExists, partExists,
                   eFlagWritten, eCancelReturned, eStopAt>>

\* an exception leaves _send_once (after its finally closed the writer)
EngRaise(message) ==
    /\ epc' = "raised"
    /\ tError' = message

\* lines 245-252: open the TLS connection (the context checks the CA chain
\* only) and send HELLO.  The certificate of the remote end is not looked at.
EngConnect(result, fingerprint) ==
    /\ epc = "connect"
    /\ result \in {"refused", "connected"}
    /\ IF result = "refused"
       THEN EngRaise("connection refused") /\ UNCHANGED eFp
       ELSE /\ epc' = "await_ack"
            /\ eFp' = fingerprint
            /\ UNCHANGED tError
    /\ sf' = SfIdle
    /\ UNCHANGED <<tPeer, tStatus, tRetries, tBytesDone, inQueue, cancelFlag,
                   progress, eResume, eBase, audit, eSentOver>>
    /\ UNCHANGED <<max_retries, retry_backoff, eDelay, recExists, partExists,
                   eAttempts, eFlagWritten, eCancelReturned, eHandled,
                   eStopAt>>

\* protocol.py lines 144-160 and 209-219: the next frame of send_file: a
\* CHUNK header with its payload, or FILE_END when the file is read through
SendNextFrame(sent_bytes) ==
    IF ReadChunk(sent_bytes) = <<>> THEN "await_end" ELSE "await_chunk_ack"

FrameSentAt(pc) == IF pc = "await_end" THEN "FILE_END" ELSE "CHUNK"

\* engine.py lines 253-261 and protocol.py lines 89-115: the ACK is read
\* (kind "proto": recv_json raised) and checked, then send_file sends FILE_REQ
EngAck(kind, ack) ==
    /\ epc = "await_ack"
    /\ IF kind = "proto" THEN EngRaise("unexpected EOF")
       ELSE IF ~validate_ack(ack) THEN EngRaise("invalid ACK")
       ELSE IF ~ack.ok THEN EngRaise("handshake rejected")
       ELSE IF ack.peer_id # "" /\ ack.peer_id # tPeer
       THEN EngRaise("peer id mismatch during transfer handshake")
       ELSE IF TaskShare \notin ack.shares
       THEN EngRaise("share not permitted by remote")
       ELSE /\ epc' = "await_meta"
            /\ UNCHANGED tError
    /\ eSentOver' = IF epc' = "await_meta"
                    THEN eSentOver \cup {<<"FILE_REQ", eFp>>} ELSE eSentOver
    /\ UNCHANGED <<tPeer, tStatus, tRetries, tBytesDone, inQueue, cancelFlag,
                   progress, eFp, eResume, eBase, sf, audit>>
    /\ UNCHANGED <<max_retries, retry_backoff, eDelay, recExists, partExists,
                   eAttempts, eFlagWritten, eCancelReturned, eHandled,
                   eStopAt>>

\* frames a receiver can answer to FILE_REQ, to a CHUNK and to FILE_END
MetaFrames ==
    [type : {"FILE_META", "ERROR"}, status : {"ok", "error"},
     resume_offset : 0..Len(SrcFile)]
ChunkAckFrames ==
    [type : {"CHUNK_ACK", "ERROR"}, chunk : 0..Len(SrcFile),
     status : {"ok", "error"}]
EndFrames == [type : {"FILE_END", "ERROR"}, status : {"ok", "error"}]

\* protocol.py lines 117-160: FILE_META is read and checked, the start
\* offset is max(resume_offset, remote_resume), and the first CHUNK (or
\* FILE_END, when nothing is left to read) is sent
EngMeta(kind, meta) ==
    /\ epc = "await_meta"
    /\ IF kind = "proto"
       THEN EngRaise("failed to receive FILE_META") /\ UNCHANGED sf
       ELSE IF meta.type # "FILE_META"
       THEN EngRaise("unexpected response type") /\ UNCHANGED sf
       ELSE IF meta.status # "ok"
       THEN EngRaise("FILE_META rejected") /\ UNCHANGED sf
       ELSE LET start_offset == Max(eResume, meta.resume_offset)
            IN /\ sf' = [start_offset |-> start_offset,
                         sent_bytes |-> start_offset,
                         sent_chunks |-> 0,
                         chunk_index |-> start_offset \div ChunkSize,
                         attempt |-> 0, resent |-> 0, slept |-> <<>>,
                         log |-> <<LogEntry(meta.type, -1,
                                            meta.resume_offset, meta.status),
                                   SentEntry(start_offset,
                                       start_offset \div ChunkSize)>>]
               /\ epc' = SendNextFrame(start_offset)
               /\ UNCHANGED tError
    /\ eSentOver' = IF epc' # "raised"
                    THEN eSentOver \cup {<<FrameSentAt(epc'), eFp>>}
                    ELSE eSentOver
    /\ UNCHANGED <<tPeer, tStatus, tRetries, tBytesDone, inQueue, cancelFlag,
                   progress, eFp, eResume, eBase, audit>>
    /\ UNCHANGED <<max_retries, retry_backoff, eDelay, recExists, partExists,
                   eAttempts, eFlagWritten, eCancelReturned, eHandled,
                   eStopAt>>

\* protocol.py lines 142, 186 and 195: the delay before the chunk is sent
\* again after its nth bad answer (attempt = nth)
ChunkDelay(nth) ==
    IF retry_backoff = <<>> THEN 0
    ELSE retry_backoff[Min(nth - 1, Len(retry_backoff) - 1) + 1]

\* mutant: the status of a CHUNK_ACK is not looked at
ChunkAckRefusedNoStatus(ack, chunk_index) ==
    ack.type # "CHUNK_ACK" \/ ack.chunk # chunk_index

\* protocol.py lines 180 and 191: the answers to a CHUNK that are not
\* accepted
ChunkAckRefused(ack, chunk_index) ==
    \/ ack.type # "CHUNK_ACK" \/ ack.chunk # chunk_index
    \/ ack.status # "ok"

\* protocol.py lines 174-208: the answer to a CHUNK.  A read error counts
\* as an ERROR frame.  A wrong type, chunk id or status is retried until
\* attempt reaches max_retries, after a sleep of ChunkDelay (the sleep and
\* the resend are part of this step: the task then waits for the answer
\* again); an ok CHUNK_ACK advances the counters, runs
\* progress_cb (engine.py lines 264-266) and sends the next frame.
EngChunkAck(kind, frame) ==
    /\ epc = "await_chunk_ack"
    /\ LET ack == IF kind = "proto"
                  THEN [type |-> "ERROR", chunk |-> -1, status |-> "error"]
                  ELSE frame
           data == ReadChunk(sf.sent_bytes)
           mismatch == ack.type # "CHUNK_ACK" \/ ack.chunk # sf.chunk_index
       IN IF ChunkAckRefused(ack, sf.chunk_index)
          THEN /\ IF sf.attempt + 1 >= max_retries
                  THEN /\ sf' = [sf EXCEPT !.attempt = @ + 1]
                       /\ EngRaise(IF mismatch THEN "chunk ack mismatch"
                                   ELSE "chunk rejected")
                  ELSE /\ sf' = [sf EXCEPT
                                    !.attempt = @ + 1,
                                    !.resent = @ + 1,
                                    !.slept =
                                        Append(@, ChunkDelay(sf.attempt + 1))]
                       /\ UNCHANGED <<epc, tError>>
               /\ UNCHANGED <<tBytesDone, progress, recExists, eSentOver>>
          ELSE /\ sf' = [sf EXCEPT !.sent_bytes = @ + Len(data),
                                   !.sent_chunks = @ + 1,
                                   !.chunk_index = @ + 1,
                                   !.attempt = 0,
                                   !.resent = 0,
                                   !.slept = <<>>,
                                   !.log = @ \o
                                     <<LogEntry(ack.type, ack.chunk, -1,
                                                ack.status),
                                       SentEntry(sf.sent_bytes + Len(data),
                                                 sf.chunk_index + 1)>>]
               /\ tBytesDone' = sf'.sent_bytes
               /\ progress' = [chunk_id |-> eBase + sf'.sent_chunks,
                               bytes_done |-> sf'.sent_bytes]
               /\ recExists' = TRUE
               /\ epc' = SendNextFrame(sf'.sent_bytes)
               /\ eSentOver' = eSentOver \cup {<<FrameSentAt(epc'), eFp>>}
               /\ UNCHANGED tError
    /\ UNCHANGED <<tPeer, tStatus, tRetries, inQueue, cancelFlag, eFp,
                   eResume, eBase, audit>>
    /\ UNCHANGED <<max_retries, retry_backoff, eDelay, partExists, eAttempts,
                   eFlagWritten, eCancelReturned, eHandled, eStopAt>>

\* session.py lines 67-73: finalize unlinks the session record and moves a
\* .part file over the file
finalize ==
    /\ progress' = [chunk_id |-> 0, bytes_done |-> 0]
    /\ recExists' = FALSE
    /\ partExists' = FALSE

\* mutant: the task is marked success without finalize
EngEndAckNoFinalize(kind, frame) ==
    /\ epc = "await_end"
    /\ IF kind = "proto"
       THEN /\ EngRaise("failed to receive FILE_END ack")
            /\ UNCHANGED <<tStatus, tBytesDone, audit>>
       ELSE IF frame.type # "FILE_END" \/ frame.status # "ok"
       THEN /\ EngRaise("transfer failed")
            /\ UNCHANGED <<tStatus, tBytesDone, audit>>
       ELSE /\ tBytesDone' = sf.sent_bytes
            /\ tStatus' = "success" /\ tError' = Null
            /\ audit' = Append(audit, "success")
            /\ epc' = "done"
    /\ sf' = IF epc' = "done"
             THEN [sf EXCEPT !.log =
                      Append(@, LogEntry(frame.type, -1, -1, frame.status))]
             ELSE sf
    /\ UNCHANGED <<tPeer, tRetries, inQueue, cancelFlag, eFp, eResume, eBase,
                   eSentOver, progress, recExists, partExists>>
    /\ UNCHANGED <<max_retries, retry_backoff, eDelay, eAttempts,
                   eFlagWritten, eCancelReturned, eHandled, eStopAt>>

\* protocol.py lines 221-230 and engine.py lines 222-235: the answer to
\* FILE_END; on FILE_END status=ok send_file returns and the task succeeds
EngEndAck(kind, frame) ==
    /\ epc = "await_end"
    /\ IF kind = "proto"
       THEN /\ EngRaise("failed to receive FILE_END ack")
            /\ UNCHANGED <<tStatus, tBytesDone, progress, recExists,
                           partExists, audit>>
       ELSE IF frame.type # "FILE_END" \/ frame.status # "ok"
       THEN /\ EngRaise("transfer failed")
            /\ UNCHANGED <<tStatus, tBytesDone, progress, recExists,
                           partExists, audit>>
       ELSE /\ tBytesDone' = sf.sent_bytes
            /\ finalize
            /\ tStatus' = "success" /\ tError' = Null
            /\ audit' = Append(audit, "success")
            /\ epc' = "done"
    /\ sf' = IF epc' = "done"
             THEN [sf EXCEPT !.log =
                      Append(@, LogEntry(frame.type, -1, -1, frame.status))]
             ELSE sf
    /\ UNCHANGED <<tPeer, tRetries, inQueue, cancelFlag, eFp, eResume, eBase,
                   eSentOver>>
    /\ UNCHANGED <<max_retries, retry_backoff, eDelay, eAttempts,
                   eFlagWritten, eCancelReturned, eHandled, eStopAt>>

\* engine.py line 203: the delay before the retry after failure `retries`
RetryDelay(retries) ==
    IF retry_backoff # <<>>
    THEN retry_backoff[Min(retries - 1, Len(retry_backoff) - 1) + 1]
    ELSE 0

\* mutant: the retry test is retries < max_retries
EngFailRetriesBelowMax ==
    /\ epc = "raised"
    /\ tRetries' = tRetries + 1
    /\ IF tRetries' < max_retries
       THEN /\ eDelay' = RetryDelay(tRetries')
            /\ IF eDelay' # 0
               THEN /\ tStatus' = "failed"
                    /\ epc' = "retry_sleep"
                    /\ UNCHANGED <<tError, inQueue>>
               ELSE /\ tStatus' = "queued" /\ tError' = Null
                    /\ inQueue' = TRUE
                    /\ epc' = "idle"
            /\ UNCHANGED audit
       ELSE /\ tStatus' = "failed"
            /\ epc' = "done"
            /\ audit' = Append(audit, "failed")
            /\ UNCHANGED <<tError, inQueue, eDelay>>
    /\ UNCHANGED <<tPeer, tBytesDone, cancelFlag, progress, eFp, eResume,
                   eBase, sf, eSentOver>>
    /\ UNCHANGED <<max_retries, retry_backoff, recExists, partExists,
                   eAttempts, eFlagWritten, eCancelReturned, eHandled,
                   eStopAt>>

\* engine.py lines 191-221: any exception of _send_once: retries += 1, mark
\* failed; while retries <= max_retries the task is queued again, after a
\* sleep when the delay is not zero, at once when it is; else the failure is
\* audited
EngFail ==
    /\ epc = "raised"
    /\ tRetries' = tRetries + 1
    /\ IF tRetries' <= max_retries
       THEN /\ eDelay' = RetryDelay(tRetries')
            /\ IF eDelay' # 0
               THEN /\ tStatus' = "failed"
                    /\ epc' = "retry_sleep"
                    /\ UNCHANGED <<tError, inQueue>>
               ELSE /\ tStatus' = "queued" /\ tError' = Null
                    /\ inQueue' = TRUE
                    /\ epc' = "idle"
            /\ UNCHANGED audit
       ELSE /\ tStatus' = "failed"
            /\ epc' = "done"
            /\ audit' = Append(audit, "failed")
            /\ UNCHANGED <<tError, inQueue, eDelay>>
    /\ UNCHANGED <<tPeer, tBytesDone, cancelFlag, progress, eFp, eResume,
                   eBase, sf, eSentOver>>
    /\ UNCHANGED <<max_retries, retry_backoff, recExists, partExists,
                   eAttempts, eFlagWritten, eCancelReturned, eHandled,
                   eStopAt>>

\* engine.py lines 205-208: after the sleep the task is marked queued and
\* put back on the queue
EngRequeue ==
    /\ epc = "retry_sleep"
    /\ tStatus' = "queued" /\ tError' = Null
    /\ inQueue' = TRUE
    /\ epc' = "idle"
    /\ UNCHANGED <<tPeer, tRetries, tBytesDone, cancelFlag, progress, eFp,
                   eResume, eBase, sf, audit, eSentOver>>
    /\ UNCHANGED <<max_retries, retry_backoff, eDelay, recExists, partExists,
                   eAttempts, eFlagWritten, eCancelReturned, eHandled,
                   eStopAt>>

----------------------------------------------------------------------------
(* receive_file *)

RecvIdle ==
    /\ rpc = "off" /\ rErr = "" /\ diskExists = FALSE /\ disk = <<>>
    /\ rResume = 0 /\ rMeta = -1 /\ rPos = 0 /\ rHashed = <<>>
    /\ rReceived = 0 /\ rChunks = 0 /\ rEnd = NoFrame
    /\ rAccepted = <<>>

\* Any initial content of out_path and any resume_offset of the caller.
RecvInit ==
    /\ rpc = "req" /\ rErr = ""
    /\ diskExists \in BOOLEAN
    /\ disk \in SeqsUpTo(Bytes, MaxPartLen)
    /\ (~diskExists => disk = <<>>)
    /\ rResume \in 0..MaxResume
    /\ rMeta = -1 /\ rPos = 0 /\ rHashed = <<>>
    /\ rReceived = 0 /\ rChunks = 0 /\ rEnd = NoFrame
    /\ rAccepted = <<>>

RecvRaise(err) ==
    /\ rpc' = "error" /\ rErr' = err
    /\ UNCHANGED <<diskExists, disk, rResume, rMeta, rPos, rHashed,
                   rReceived, rChunks, rEnd, rAccepted>>

\* lines 266-291: the FILE_REQ frame is checked and FILE_META is sent with
\* the resume_offset as passed by the caller.
RecvFileReq ==
    /\ rpc = "req"
    /\ \E type \in {"FILE_REQ", "CHUNK"}, mode \in {"push", "pull"} :
         IF type # "FILE_REQ" \/ mode # "push"
         THEN RecvRaise("ProtocolError")
         ELSE /\ rpc' = "open"
              /\ rMeta' = rResume
              /\ UNCHANGED <<rErr, diskExists, disk, rResume, rPos, rHashed,
                             rReceived, rChunks, rEnd, rAccepted>>

\* lines 293-316: open out_path ("r+b" when it exists, else "wb"), hash the
\* first resume_offset bytes present, clamp resume_offset, seek.
RecvOpen ==
    /\ rpc = "open"
    /\ LET buffered == IF rResume > 0 /\ diskExists
                       THEN ReadPrefix(disk, rResume) ELSE <<>>
           existing == Len(buffered)
           clamped  == IF rResume > 0 /\ existing < rResume
                       THEN existing ELSE rResume
       IN /\ diskExists' = TRUE
          /\ disk' = IF diskExists THEN disk ELSE <<>>
          /\ rHashed' = buffered
          /\ rResume' = clamped
          /\ rPos' = clamped
          /\ rReceived' = clamped
    /\ rChunks' = 0
    /\ rpc' = "loop"
    /\ UNCHANGED <<rErr, rMeta, rEnd, rAccepted>>

\* the "chunk" and "offset" fields a CHUNK header can carry
ChunkIds == 0..(MaxChunks - 1)
ChunkOffsets == 0..MaxChunkLen

\* lines 336-363: a CHUNK frame and its payload.  Of the header only size
\* and hash are read; chunk is echoed in the CHUNK_ACK.
RecvChunk ==
    /\ rpc = "loop"
    /\ rChunks < MaxChunks
    /\ \E payload \in SeqsUpTo(Bytes, MaxChunkLen), good \in BOOLEAN,
          chunk \in ChunkIds, offset \in ChunkOffsets :
         LET expected_hash == IF good THEN Sha256(payload) ELSE BadDigest
         IN IF ~verify_chunk(payload, expected_hash)
            THEN RecvRaise("ChecksumError")
            ELSE /\ disk' = WriteAt(disk, rPos, payload)
                 /\ rPos' = rPos + Len(payload)
                 /\ rHashed' = rHashed \o payload
                 /\ rReceived' = rReceived + Len(payload)
                 /\ rChunks' = rChunks + 1
                 /\ rAccepted' = Append(rAccepted,
                        [chunk |-> chunk, offset |-> offset, at |-> rPos])
                 /\ UNCHANGED <<rpc, rErr, diskExists, rResume, rMeta, rEnd>>

\* lines 326-335: FILE_END; the running hash is compared with the claimed one.
\* The frame is the one send_file builds (lines 210-219): the hash and the
\* size of the sender's file.
RecvFileEnd ==
    /\ rpc = "loop"
    /\ \E content \in SeqsUpTo(Bytes, MaxPartLen + MaxChunks * MaxChunkLen) :
         LET claimed_hash == Sha256(content)
         IN IF Sha256(rHashed) # claimed_hash
            THEN RecvRaise("ChecksumError")
            ELSE /\ rEnd' = [type |-> "FILE_END", hash |-> claimed_hash,
                             bytes |-> Len(content)]
                 /\ rpc' = "done"
                 /\ UNCHANGED <<rErr, diskExists, disk, rResume, rMeta, rPos,
                                rHashed, rReceived, rChunks, rAccepted>>

\* lines 319-323 and 336-337: the frame cannot be read, or is neither
\* FILE_END nor CHUNK.
RecvBadFrame ==
    /\ rpc = "loop"
    /\ RecvRaise("ProtocolError")


----------------------------------------------------------------------------
(* The manifest differ (diff.py).  A manifest is the list of its entries;  *)
(* an entry has a path, a hash ("" when the manifest carries none) and an  *)
(* mtime.                                                                  *)

\* the paths of the model, in the order sorted() gives them
DiffPaths == <<"a.txt", "b.txt">>
DiffPathSet == {DiffPaths[i] : i \in DOMAIN DiffPaths}
DiffHashes == {"", "h1", "h2"}
DiffMtimes == {0, 1}
\* most entries in one manifest
MaxEntries == 2

ManifestEntries ==
    [path : DiffPathSet \cup {""}, hash : DiffHashes, mtime : DiffMtimes]
Manifests == SeqsUpTo(ManifestEntries, MaxEntries)

\* _entry_map: entries without a path are dropped, a later entry of a path
\* replaces an earlier one
entry_map(manifest) ==
    LET keys == {manifest[i].path : i \in DOMAIN manifest} \ {""}
        last(p) == CHOOSE i \in DOMAIN manifest :
                      /\ manifest[i].path = p
                      /\ \A j \in DOMAIN manifest :
                            manifest[j].path = p => j <= i
    IN  [p \in keys |-> manifest[last(p)]]

\* sorted(paths)
sorted_paths(S) == SelectSeq(DiffPaths, LAMBDA p : p \in S)

\* the body of the loop of compare_manifests: the path is appended to
\* modified_paths
entry_modified(local_entry, remote_entry) ==
    LET local_hash == local_entry.hash
        remote_hash == remote_entry.hash
    IN  IF local_hash # "" /\ remote_hash # "" /\ local_hash # remote_hash
        THEN TRUE
        ELSE IF (local_hash # "" \/ remote_hash # "")
                /\ local_hash # remote_hash
        THEN TRUE
        ELSE local_entry.mtime > remote_entry.mtime

compare_manifests(local, remote) ==
    LET local_map == entry_map(local)
        remote_map == entry_map(remote)
        local_paths == DOMAIN local_map
        remote_paths == DOMAIN remote_map
        added_paths == sorted_paths(local_paths \ remote_paths)
        deleted_paths == sorted_paths(remote_paths \ local_paths)
        modified_paths ==
            sorted_paths({path \in local_paths \cap remote_paths :
                            entry_modified(local_map[path], remote_map[path])})
    IN  [added |-> added_paths,
         modified |-> modified_paths,
         deleted |-> deleted_paths,
         summary |-> [added |-> Len(added_paths),
                      modified |-> Len(modified_paths),
                      deleted |-> Len(deleted_paths),
                      delta |-> Len(added_paths) + Len(modified_paths)
                                + Len(deleted_paths)]]

NoDiff == compare_manifests(<<>>, <<>>)

DiffIdle ==
    /\ dLocal = <<>> /\ dRemote = <<>>
    /\ dpc = "off"
    /\ dResult = NoDiff /\ dSwapped = NoDiff

DiffInit ==
    /\ dLocal \in Manifests /\ dRemote \in Manifests
    /\ dpc = "in"
    /\ dResult = NoDiff /\ dSwapped = NoDiff

\* a caller compares its manifest with the remote one
DiffCompare ==
    /\ dpc = "in"
    /\ dResult' = compare_manifests(dLocal, dRemote)
    /\ dpc' = "ab"
    /\ UNCHANGED <<dLocal, dRemote, dSwapped>>

\* the same two manifests compared from the other side
DiffCompareSwapped ==
    /\ dpc = "ab"
    /\ dSwapped' = compare_manifests(dRemote, dLocal)
    /\ dpc' = "both"
    /\ UNCHANGED <<dLocal, dRemote, dResult>>

----------------------------------------------------------------------------
(* The engine's task table: enqueue, cancel and the persisted snapshot     *)
(* (transfer/engine.py), with the path checks of utils/pathing.py.  A path *)
(* is the list of its components; the file system holds no symbolic link, *)
(* so Path.resolve() is the lexical normalisation.                         *)

\* most enqueue calls in one run of the engine
MaxEnqueues == 3

\* share_map: share name -> ShareConfig.path (normalised when loaded)
ShareNames == {"docs"}
SharePath(share_name) == <<"srv", "docs">>

\* the files on disk
FsFiles ==
    {<<"srv", "docs", "a.txt">>, <<"srv", "docs", "sub", "b.txt">>,
     <<"srv", "secret.txt">>, <<"srv", "docs2", "c.txt">>}

\* what file_entry["path"] can hold: "" or a relative or absolute path
NoCandidate == [absolute |-> FALSE, parts |-> <<>>]
Candidates ==
    {NoCandidate,
     [absolute |-> FALSE, parts |-> <<"a.txt">>],
     [absolute |-> FALSE, parts |-> <<"sub", "b.txt">>],
     [absolute |-> FALSE, parts |-> <<"sub", "..", "a.txt">>],
     [absolute |-> FALSE, parts |-> <<"..", "secret.txt">>],
     [absolute |-> FALSE, parts |-> <<"..", "docs2", "c.txt">>],
     [absolute |-> FALSE, parts |-> <<"missing.txt">>],
     [absolute |-> TRUE, parts |-> <<"srv", "docs", "a.txt">>],
     [absolute |-> TRUE, parts |-> <<"srv", "docs", "..", "secret.txt">>],
     [absolute |-> TRUE, parts |-> <<"srv", "docs2", "c.txt">>],
     [absolute |-> TRUE, parts |-> <<"srv", "docs", "missing.txt">>]}

\* Path.resolve(): ".." steps up (not above the root)
RECURSIVE ResolveParts(_, _)
ResolveParts(done, rest) ==
    IF rest = <<>> THEN done
    ELSE IF Head(rest) = ".."
    THEN ResolveParts(IF done = <<>> THEN <<>>
                      ELSE SubSeq(done, 1, Len(done) - 1), Tail(rest))
    ELSE ResolveParts(Append(done, Head(rest)), Tail(rest))

\* Path.exists(): a file or a directory on the way to one
PathExists(path) ==
    \E f \in FsFiles : Len(f) >= Len(path) /\ SubSeq(f, 1, Len(path)) = path

\* PurePath.relative_to does not raise ValueError
IsRelativeTo(path, base) ==
    Len(path) >= Len(base) /\ SubSeq(path, 1, Len(base)) = base

\* PurePath.relative_to
relative_to(path, base) == SubSeq(path, Len(base) + 1, Len(path))

\* pathing.normalize_path
normalize_path(base, p) ==
    IF p.absolute THEN ResolveParts(<<>>, p.parts)
    ELSE ResolveParts(<<>>, base \o p.parts)

\* pathing.ensure_within: [raised, target]; an absolute path is returned
\* unchecked
ensure_within(base, p) ==
    LET target == normalize_path(base, p)
    IN  IF p.absolute THEN [raised |-> FALSE, target |-> target]
        ELSE [raised |-> ~IsRelativeTo(target, base), target |-> target]

ResolveError(message) ==
    [status |-> message, absolute |-> <<>>, relative |-> <<>>]

\* mutant: _resolve_file without the relative_to test of lines 94-97
resolve_file_unchecked(share_name, candidate) ==
    IF share_name \notin ShareNames THEN ResolveError("unknown share")
    ELSE IF candidate = NoCandidate
    THEN ResolveError("file_entry must include path")
    ELSE LET within == ensure_within(SharePath(share_name), candidate)
             absolute == within.target
         IN  IF within.raised THEN ResolveError("escapes base")
             ELSE IF ~PathExists(absolute)
             THEN ResolveError("source file not found")
             ELSE [status |-> "ok", absolute |-> absolute,
                   relative |-> relative_to(absolute, SharePath(share_name))]

\* TransferEngine._resolve_file
resolve_file(share_name, candidate) ==
    IF share_name \notin ShareNames THEN ResolveError("unknown share")
    ELSE IF candidate = NoCandidate
    THEN ResolveError("file_entry must include path")
    ELSE LET within == ensure_within(SharePath(share_name), candidate)
             absolute == within.target
         IN  IF within.raised THEN ResolveError("escapes base")
             ELSE IF ~IsRelativeTo(absolute, SharePath(share_name))
             THEN ResolveError("outside share")
             ELSE IF ~PathExists(absolute)
             THEN ResolveError("source file not found")
             ELSE [status |-> "ok", absolute |-> absolute,
                   relative |-> relative_to(absolute, SharePath(share_name))]

\* mutant: the counter is read but not advanced
next_task_id_stuck(seq) == seq

\* TransferEngine._next_task_id: the new value of _task_seq, which is the id
next_task_id(seq) == seq + 1

\* sorted(ids)
RECURSIVE SortedIds(_)
SortedIds(ids) ==
    IF ids = {} THEN <<>>
    ELSE LET least == CHOOSE i \in ids : \A j \in ids : i <= j
         IN  <<least>> \o SortedIds(ids \ {least})

\* TransferEngine._persist_states: the payload written to queue.json
persist_states(table) ==
    LET ids == SortedIds({table[k].task_id : k \in DOMAIN table})
    IN  [n \in 1..Len(ids) |->
            LET state == CHOOSE s \in {table[k] : k \in DOMAIN table} :
                            s.task_id = ids[n]
            IN  [task_id |-> state.task_id, peer |-> state.peer_id,
                 share |-> state.share, file |-> state.relative_path,
                 status |-> state.status]]

NoEnqueue == [status |-> "none", task_id |-> 0]

QueueIdle ==
    /\ task_seq = 0
    /\ tasks = <<>>
    /\ queues = [p \in Peers |-> <<>>]
    /\ snapshot = <<>>
    /\ enqCalls = 0
    /\ enqLast = NoEnqueue
    /\ enqIds = <<>>

\* lines 103-138: enqueue(peer_id, share_name, {"path": candidate})
Enqueue(peer_id, share_name, candidate) ==
    /\ enqCalls < MaxEnqueues
    /\ enqCalls' = enqCalls + 1
    /\ LET resolved == resolve_file(share_name, candidate)
           task_id == next_task_id(task_seq)
           state == [task_id |-> task_id, peer_id |-> peer_id,
                     share |-> share_name,
                     relative_path |-> resolved.relative,
                     absolute_path |-> resolved.absolute,
                     status |-> "queued"]
       IN  IF resolved.status # "ok"
           THEN /\ enqLast' = [status |-> resolved.status, task_id |-> 0]
                /\ UNCHANGED <<task_seq, tasks, queues, snapshot, enqIds>>
           ELSE /\ task_seq' = task_id
                /\ tasks' = [k \in DOMAIN tasks \cup {task_id} |->
                                IF k = task_id THEN state ELSE tasks[k]]
                /\ queues' = [queues EXCEPT ![peer_id] = Append(@, task_id)]
                /\ snapshot' = persist_states(tasks')
                /\ enqLast' = [status |-> "ok", task_id |-> task_id]
                /\ enqIds' = Append(enqIds, task_id)

\* lines 307-316: cancel(task_id): an unknown id changes nothing, a known
\* task is marked cancelled and the snapshot is written
QueueCancel(task_id) ==
    /\ task_id \in DOMAIN tasks
    /\ tasks[task_id].status # "cancelled"
    /\ tasks' = [tasks EXCEPT ![task_id].status = "cancelled"]
    /\ snapshot' = persist_states(tasks')
    /\ UNCHANGED <<task_seq, queues, enqCalls, enqLast, enqIds>>

----------------------------------------------------------------------------
(* Framing (net/framing.py): send_json and recv_json over one stream. *)

\* framing.py line 32: the default max_size of recv_json
max_size == 8 * 1024 * 1024

\* frames written in one run of the framing model
MaxFrames == 2

\* The objects handed to send_json: {"type": type, "pad": "a" * pad}.  The
\* string of pad letters is kept as its length.
FrameTypes == {"HELLO", "CHUNK", "HEARTBEAT"}
TypeLen == [t \in FrameTypes |->
               IF t = "HEARTBEAT" THEN 9 ELSE 5]
\* bytes of the body around the pad letters: {"type":" + type + ","pad":" + "}
FrameOverhead(type) == 9 + TypeLen[type] + 9 + 2
PadLens ==
    {0, 1, max_size - FrameOverhead("HELLO") - 1,
     max_size - FrameOverhead("HELLO"),
     max_size - FrameOverhead("HELLO") + 1}
FrameObjects == [type : FrameTypes, pad : PadLens]

\* framing.py lines 19-21: json.dumps with separators (",", ":") and the
\* UTF-8 encoding: the body as pieces of text, each with its byte count
dumps(obj) ==
    << [text |-> "{\"type\":\"", bytes |-> 9],
       [text |-> obj.type, bytes |-> TypeLen[obj.type]],
       [text |-> "\",\"pad\":\"", bytes |-> 9],
       [text |-> "a", bytes |-> obj.pad],
       [text |-> "\"}", bytes |-> 2] >>

RECURSIVE BodyLen(_)
BodyLen(body) ==
    IF body = <<>> THEN 0 ELSE Head(body).bytes + BodyLen(Tail(body))

\* framing.py line 23: struct.pack(">I", n): four bytes, high byte first
pack_I(n) ==
    << (n \div 16777216) % 256, (n \div 65536) % 256, (n \div 256) % 256,
       n % 256 >>

\* framing.py line 42: struct.unpack(">I", header)
unpack_I(header) ==
    ((header[1] * 256 + header[2]) * 256 + header[3]) * 256 + header[4]

\* framing.py line 54: json.loads of a body: the object back, or no object
\* when the text is not the JSON of one
NoObject == [type |-> "none", pad |-> -1]
loads(body) ==
    IF /\ Len(body) = 5
       /\ body[1].text = "{\"type\":\"" /\ body[2].text \in FrameTypes
       /\ body[3].text = "\",\"pad\":\"" /\ body[4].text = "a"
       /\ body[5].text = "\"}"
    THEN [type |-> body[2].text, pad |-> body[4].bytes]
    ELSE NoObject

\* framing.py lines 32-62: recv_json on a frame of the stream; cut tells
\* where the stream ended ("none": the whole frame arrived)
recv_json(frame) ==
    IF frame.cut = "header"
    THEN [ok |-> FALSE, error |-> "unexpected EOF while reading frame length",
          obj |-> NoObject]
    ELSE LET length == unpack_I(frame.header)
         IN IF length <= 0 \/ length > max_size
            THEN [ok |-> FALSE, error |-> "invalid frame length",
                  obj |-> NoObject]
            ELSE IF frame.cut = "payload"
            THEN [ok |-> FALSE,
                  error |-> "unexpected EOF while reading frame payload",
                  obj |-> NoObject]
            ELSE IF loads(frame.body) = NoObject
            THEN [ok |-> FALSE, error |-> "invalid JSON payload",
                  obj |-> NoObject]
            ELSE [ok |-> TRUE, error |-> "", obj |-> loads(frame.body)]

FrameIdle ==
    /\ fWire = <<>> /\ fLog = <<>> /\ fpc = "off" /\ fWritten = 0

FrameInit ==
    /\ fWire = <<>> /\ fLog = <<>> /\ fpc = "open" /\ fWritten = 0

\* framing.py lines 15-29: send_json writes the header and the body
FrameSend(obj) ==
    /\ fpc = "open"
    /\ fWritten < MaxFrames
    /\ LET data == dumps(obj)
       IN fWire' = Append(fWire, [header |-> pack_I(BodyLen(data)),
                                  body |-> data, cut |-> "none", obj |-> obj])
    /\ fWritten' = fWritten + 1
    /\ UNCHANGED <<fLog, fpc>>

\* the sending end goes away while its last frame is under way: the stream
\* ends inside the header or inside the body
FrameEof(where) ==
    /\ fpc = "open"
    /\ fWire # <<>>
    /\ fWire' = [fWire EXCEPT ![Len(fWire)].cut = where]
    /\ fpc' = "eof"
    /\ UNCHANGED <<fLog, fWritten>>

\* framing.py lines 32-62: recv_json reads the next frame of the stream; an
\* error ends the session that called it
FrameRecv ==
    /\ fpc \in {"open", "eof"}
    /\ fWire # <<>>
    /\ LET frame == Head(fWire)
           got == recv_json(frame)
       IN /\ fLog' = Append(fLog, [sent |-> frame.obj, cut |-> frame.cut,
                                   length |-> BodyLen(frame.body),
                                   got |-> got])
          /\ fpc' = IF got.ok THEN fpc ELSE "failed"
    /\ fWire' = Tail(fWire)
    /\ UNCHANGED fWritten

----------------------------------------------------------------------------
(* Router (transfer/router.py): plan_transfers. *)

RouteShareList == <<"docs", "media">>
RouteShares == {RouteShareList[i] : i \in DOMAIN RouteShareList}

\* manifests as the indexer writes them: entries with a hash, paths
\* ascending and distinct
RouteEntries == [path : DiffPathSet, hash : {"h1", "h2"}, mtime : {0}]
RouteManifests ==
    {m \in SeqsUpTo(RouteEntries, Len(DiffPaths)) :
        m = SelectSeq(m, LAMBDA e : e.path = DiffPaths[1])
            \o SelectSeq(m, LAMBDA e : e.path = DiffPaths[2])
        /\ \A i, j \in DOMAIN m : i # j => m[i].path # m[j].path}

\* the values of diff_result: what compare_manifests returns
RouteDiffs ==
    {compare_manifests(l, r) : l \in RouteManifests, r \in RouteManifests}

\* the mappings share -> diff over any of the shares
DiffResults ==
    UNION {[S -> RouteDiffs] : S \in SUBSET RouteShares}

\* router.py lines 34-45: the descriptors of one share, added paths first
share_tasks(share_name, share_diff, peer_id) ==
    LET candidate_paths == share_diff.added \o share_diff.modified
    IN  [i \in DOMAIN candidate_paths |->
            [share |-> share_name, relative_path |-> candidate_paths[i],
             mode |-> "push", peer_id |-> peer_id]]

\* mutant: the allowed_shares test of line 32 is left out
RECURSIVE plan_transfers_all_shares(_, _, _, _)
plan_transfers_all_shares(diff_result, peer_id, allowed_shares, i) ==
    IF i > Len(RouteShareList) THEN <<>>
    ELSE LET share_name == RouteShareList[i]
             rest == plan_transfers_all_shares(diff_result, peer_id,
                                               allowed_shares, i + 1)
         IN IF share_name \notin DOMAIN diff_result
            THEN rest
            ELSE share_tasks(share_name, diff_result[share_name], peer_id)
                 \o rest

\* router.py lines 30-46: plan_transfers over the shares of diff_result from
\* the i-th on; a share outside allowed_shares is skipped
RECURSIVE plan_transfers(_, _, _, _)
plan_transfers(diff_result, peer_id, allowed_shares, i) ==
    IF i > Len(RouteShareList) THEN <<>>
    ELSE LET share_name == RouteShareList[i]
             rest == plan_transfers(diff_result, peer_id, allowed_shares,
                                    i + 1)
         IN IF share_name \notin DOMAIN diff_result
            THEN rest
            ELSE IF share_name \notin allowed_shares
            THEN rest
            ELSE share_tasks(share_name, diff_result[share_name], peer_id)
                 \o rest

RouteIdle ==
    /\ pDiff = <<>> /\ pAllowed = {} /\ pPeer = "" /\ pTasks = <<>>
    /\ ppc = "off"

RouteInit ==
    /\ pDiff \in DiffResults
    /\ pAllowed \in SUBSET (RouteShares \cup {"other"})
    /\ pPeer \in Peers
    /\ pTasks = <<>>
    /\ ppc = "in"

\* a caller plans the transfers to a peer
RoutePlan ==
    /\ ppc = "in"
    /\ pTasks' = plan_transfers(pDiff, pPeer, pAllowed, 1)
    /\ ppc' = "done"
    /\ UNCHANGED <<pDiff, pAllowed, pPeer>>

----------------------------------------------------------------------------
(* Indexer (indexer.py, utils/ignore.py): build_manifest over a share tree. *)
(* A name is a sequence of characters, a path a sequence of names.          *)

\* the characters of the names below, in code point order
Alphabet ==
    <<".", "/", "a", "b", "c", "d", "e", "h", "i", "l", "m", "n", "o", "r",
      "s", "t", "u", "x">>
Rank(ch) == CHOOSE i \in DOMAIN Alphabet : Alphabet[i] = ch

N_hidden == <<".", "h", "i", "d", "d", "e", "n">>
N_secret == <<"s", "e", "c", "r", "e", "t">>
N_build == <<"b", "u", "i", "l", "d">>
N_x_o == <<"x", ".", "o">>
N_src == <<"s", "r", "c">>
N_main_c == <<"m", "a", "i", "n", ".", "c">>
N_pycache == <<"_", "_", "p", "y", "c", "a", "c", "h", "e", "_", "_">>

\* the places of the share tree where something can be
TreePaths ==
    {<<N_hidden, N_secret>>, <<N_build, N_x_o>>, <<N_src, N_main_c>>,
     <<N_src, N_x_o>>, <<N_main_c>>, <<N_src, N_build, N_x_o>>}

\* what is at a place: nothing, a regular file, or a file of another type
\* (a socket, a FIFO)
FileKinds == {"absent", "reg", "other"}
Trees == [TreePaths -> FileKinds]

\* the ignore patterns a share is configured with: build/, *.o, src
P_build_slash == <<"b", "u", "i", "l", "d", "/">>
P_star_o == <<"*", ".", "o">>
P_src == <<"s", "r", "c">>
PatternLists ==
    {<<>>, <<P_build_slash>>, <<P_star_o>>, <<P_src>>,
     <<P_build_slash, P_star_o>>, <<P_star_o, P_src>>}

\* PurePath.as_posix of a relative path: the names joined by "/"
RECURSIVE as_posix(_)
as_posix(path) ==
    IF path = <<>> THEN <<>>
    ELSE IF Len(path) = 1 THEN path[1]
    ELSE path[1] \o <<"/">> \o as_posix(Tail(path))

\* fnmatch.fnmatch: * matches any run of characters, "/" included, ? one
\* character, any other character itself
RECURSIVE fnmatch(_, _)
fnmatch(name, pat) ==
    IF pat = <<>> THEN name = <<>>
    ELSE IF Head(pat) = "*"
    THEN fnmatch(name, Tail(pat))
         \/ (name # <<>> /\ fnmatch(Tail(name), pat))
    ELSE /\ name # <<>>
         /\ (Head(pat) = "?" \/ Head(pat) = Head(name))
         /\ fnmatch(Tail(name), Tail(pat))

\* ignore.py lines 41-44
should_ignore(candidate, patterns) ==
    \E i \in DOMAIN patterns : fnmatch(candidate, patterns[i])

\* what os.walk lists in a directory of the tree: its sub-directories and
\* its other entries
Present(tree) == {p \in TreePaths : tree[p] # "absent"}
IsPrefix(d, p) == Len(d) < Len(p) /\ SubSeq(p, 1, Len(d)) = d
dirnames(tree, dir) ==
    {SubSeq(p, 1, Len(dir) + 1) : p \in {q \in Present(tree) :
                                     IsPrefix(dir, q) /\ Len(q) > Len(dir) + 1}}
filenames(tree, dir) ==
    {p \in Present(tree) : IsPrefix(dir, p) /\ Len(p) = Len(dir) + 1}

\* mutant: the directory is not tried with a trailing "/"
dir_ignored_no_slash(d, patterns, ignore_hidden) ==
    LET dirname == d[Len(d)]
        rel_path == as_posix(d)
    IN  \/ ignore_hidden /\ (Head(dirname) = "." \/ dirname = N_pycache)
        \/ should_ignore(rel_path, patterns)

\* indexer.py lines 69-74: the directory is pruned
dir_ignored(d, patterns, ignore_hidden) ==
    LET dirname == d[Len(d)]
        rel_path == as_posix(d)
    IN  \/ ignore_hidden /\ (Head(dirname) = "." \/ dirname = N_pycache)
        \/ should_ignore(rel_path, patterns)
        \/ should_ignore(rel_path \o <<"/">>, patterns)

RECURSIVE walk(_, _, _, _)
RECURSIVE walk_dirs(_, _, _, _)

\* indexer.py lines 62-84: os.walk from dir down: the files collected and
\* the number of directories and files ignored
walk(tree, dir, patterns, ignore_hidden) ==
    LET dirs == dirnames(tree, dir)
        kept_dirs == {d \in dirs : ~dir_ignored(d, patterns, ignore_hidden)}
        names == filenames(tree, dir)
        kept == {p \in names : ~should_ignore(as_posix(p), patterns)}
        below == walk_dirs(tree, kept_dirs, patterns, ignore_hidden)
    IN  [files |-> kept \cup below.files,
         ignored |-> Cardinality(dirs \ kept_dirs)
                     + Cardinality(names \ kept)
                     + below.ignored]

\* os.walk goes on into each directory left in dirnames
walk_dirs(tree, dirs, patterns, ignore_hidden) ==
    IF dirs = {} THEN [files |-> {}, ignored |-> 0]
    ELSE LET d == CHOOSE x \in dirs : TRUE
             here == walk(tree, d, patterns, ignore_hidden)
             rest == walk_dirs(tree, dirs \ {d}, patterns, ignore_hidden)
         IN  [files |-> here.files \cup rest.files,
              ignored |-> here.ignored + rest.ignored]

\* str < str: by code points, a proper prefix first
RECURSIVE StrLess(_, _)
StrLess(a, b) ==
    IF b = <<>> THEN FALSE
    ELSE IF a = <<>> THEN TRUE
    ELSE IF Head(a) = Head(b) THEN StrLess(Tail(a), Tail(b))
    ELSE Rank(Head(a)) < Rank(Head(b))

\* indexer.py line 136: entries.sort(key=path)
RECURSIVE sort_entries(_)
sort_entries(S) ==
    IF S = {} THEN <<>>
    ELSE LET least == CHOOSE e \in S :
                         \A o \in S \ {e} : StrLess(e.path, o.path)
         IN  <<least>> \o sort_entries(S \ {least})

\* indexer.py lines 101-135: process_file keeps the regular files
process_files(tree, files) ==
    {[path |-> as_posix(p)] : p \in {q \in files : tree[q] = "reg"}}

IndexIdle ==
    /\ iTree = [p \in TreePaths |-> "absent"] /\ iPatterns = <<>>
    /\ iHidden = TRUE /\ iEntries = <<>> /\ iIgnored = 0 /\ ipc = "off"

IndexInit ==
    /\ iTree \in Trees /\ iPatterns \in PatternLists /\ iHidden \in BOOLEAN
    /\ iEntries = <<>> /\ iIgnored = 0 /\ ipc = "in"

\* indexer.py lines 53-148: build_manifest
BuildManifest ==
    /\ ipc = "in"
    /\ LET w == walk(iTree, <<>>, iPatterns, iHidden)
       IN /\ iEntries' = sort_entries(process_files(iTree, w.files))
          /\ iIgnored' = w.ignored
    /\ ipc' = "done"
    /\ UNCHANGED <<iTree, iPatterns, iHidden>>

----------------------------------------------------------------------------
(* The workers of the engine (transfer/engine.py): run_forever starts      *)
(* max(1, max_concurrent_per_peer) workers per peer on the peer's queue.   *)

\* largest transfer.max_concurrent_per_peer of a configuration
MaxConcurrent == 2

\* lines 290-293: the workers run_forever creates
Workers ==
    {[peer |-> p, n |-> k] : p \in Peers, k \in 1..Max(1, max_concurrent)}
AllWorkers == [peer : Peers, n : 1..MaxConcurrent]

\* the paths callers enqueue: two files of the share
OwnCandidates ==
    {[absolute |-> FALSE, parts |-> <<"a.txt">>],
     [absolute |-> FALSE, parts |-> <<"sub", "b.txt">>]}

\* session.py lines 30-38: the session record and the .part file of a task
\* are named after (peer_id, share_name, file_path)
SessionKey(state) == <<state.peer_id, state.share, state.absolute_path>>

OwnIdle ==
    /\ max_concurrent = 1
    /\ wRun = [w \in AllWorkers |-> 0]
    /\ oRetries = <<>>
    /\ oFlags = {}
    /\ oRequested = {}
    /\ oFlagCancelled = {}
    /\ oStopped = FALSE

OwnInit ==
    /\ max_concurrent \in 1..MaxConcurrent
    /\ wRun = [w \in AllWorkers |-> 0]
    /\ oRetries = <<>>
    /\ oFlags = {}
    /\ oRequested = {}
    /\ oFlagCancelled = {}
    /\ oStopped = FALSE

\* lines 307-316: cancel(task_id): the task is marked cancelled, the
\* snapshot and the flag file are written
OwnCancel(task_id) ==
    /\ QueueCancel(task_id)
    /\ oFlags' = oFlags \cup {task_id}
    /\ oRequested' = oRequested \cup {task_id}
    /\ UNCHANGED <<max_concurrent, wRun, oRetries, oFlagCancelled, oStopped>>

\* lines 150-151 and 339-340: the file cancel_<task_id>.flag exists
FlagExists(task_id) == task_id \in oFlags

\* lines 142-187: a worker that waits in queue.get takes the next task of
\* its peer's queue.  A cancelled or flagged task is dropped; any other is
\* marked running and its transfer attempt starts: the worker is suspended
\* in _send_once
OwnWorkerGet(w) ==
    /\ w \in Workers
    /\ ~oStopped
    /\ wRun[w] = 0
    /\ queues[w.peer] # <<>>
    /\ LET task_id == Head(queues[w.peer])
       IN /\ queues' = [queues EXCEPT ![w.peer] = Tail(@)]
          /\ IF tasks[task_id].status = "cancelled"
             THEN UNCHANGED <<tasks, snapshot, wRun, oFlags, oFlagCancelled>>
             ELSE IF FlagExists(task_id)
             THEN /\ oFlags' = oFlags \ {task_id}
                  /\ oFlagCancelled' = oFlagCancelled \cup {task_id}
                  /\ tasks' = [tasks EXCEPT ![task_id].status = "cancelled"]
                  /\ snapshot' = persist_states(tasks')
                  /\ UNCHANGED wRun
             ELSE /\ tasks' = [tasks EXCEPT ![task_id].status = "running"]
                  /\ snapshot' = persist_states(tasks')
                  /\ wRun' = [wRun EXCEPT ![w] = task_id]
                  /\ UNCHANGED <<oFlags, oFlagCancelled>>
    /\ UNCHANGED <<task_seq, enqCalls, enqLast, enqIds, max_concurrent,
                   oRetries, oRequested, oStopped>>

\* number of failed attempts of a task so far (state.retries)
RetriesOf(task_id) ==
    IF task_id \in DOMAIN oRetries THEN oRetries[task_id] ELSE 0

\* lines 186-225: the transfer attempt of worker w ends: _send_once returned
\* (the task is marked success) or raised (retries is incremented and the
\* task is queued again while retries <= max_retries, else left failed; the
\* backoff sleep is not a separate step here)
OwnAttemptEnd(w, raised) ==
    /\ w \in Workers
    /\ wRun[w] # 0
    /\ LET task_id == wRun[w]
           retries == RetriesOf(task_id) + 1
       IN IF ~raised
          THEN /\ tasks' = [tasks EXCEPT ![task_id].status = "success"]
               /\ UNCHANGED <<queues, oRetries>>
          ELSE /\ oRetries' = [k \in DOMAIN oRetries \cup {task_id} |->
                                  IF k = task_id THEN retries
                                  ELSE oRetries[k]]
               /\ IF retries <= max_retries
                  THEN /\ tasks' = [tasks EXCEPT ![task_id].status = "queued"]
                       /\ queues' = [queues EXCEPT
                                        ![w.peer] = Append(@, task_id)]
                  ELSE /\ tasks' = [tasks EXCEPT ![task_id].status = "failed"]
                       /\ UNCHANGED queues
    /\ snapshot' = persist_states(tasks')
    /\ wRun' = [wRun EXCEPT ![w] = 0]
    /\ UNCHANGED <<task_seq, enqCalls, enqLast, enqIds, max_concurrent,
                   oFlags, oRequested, oFlagCancelled, oStopped>>

\* lines 297-302: stop() sets _stop_event and cancels every worker: a
\* worker suspended in a transfer attempt gets CancelledError inside
\* _send_once and marks its task cancelled (lines 188-190); a worker
\* waiting in queue.get just ends.  Tasks still queued stay queued.  The
\* handler at lines 188-190 does not call _persist_states: queue.json stays
\* as last written.
OwnStop ==
    /\ ~oStopped
    /\ oStopped' = TRUE
    /\ LET inflight == {wRun[w] : w \in Workers} \ {0}
       IN tasks' = [k \in DOMAIN tasks |->
                       IF k \in inflight
                       THEN [tasks[k] EXCEPT !.status = "cancelled"]
                       ELSE tasks[k]]
    /\ wRun' = [w \in AllWorkers |-> 0]
    /\ UNCHANGED <<snapshot, task_seq, queues, enqCalls, enqLast, enqIds,
                   max_concurrent, oRetries, oFlags, oRequested,
                   oFlagCancelled>>

\* lines 54-73 and 287-294: the process ends and a new one builds the
\* engine and starts its workers: the counter, the task table and the
\* queues start empty (queue.json is not read back), while the files of the
\* sessions directory, the cancel flags among them, are still there
OwnRestart ==
    /\ task_seq > 0
    /\ task_seq' = 0
    /\ tasks' = <<>>
    /\ queues' = [p \in Peers |-> <<>>]
    /\ wRun' = [w \in AllWorkers |-> 0]
    /\ oRetries' = <<>>
    /\ oRequested' = {}
    /\ oFlagCancelled' = {}
    /\ oStopped' = FALSE
    /\ UNCHANGED <<snapshot, enqCalls, enqLast, enqIds, max_concurrent,
                   oFlags>>

\* every model added for one operation at rest
AuxIdle == FrameIdle /\ RouteIdle /\ IndexIdle /\ OwnIdle

\* every stateful subsystem at rest
BaseIdle ==
    /\ RecvIdle /\ PeersInit /\ WaitInit /\ CfgFixed /\ SrvInit /\ CliIdle
    /\ EngIdle /\ DiffIdle /\ QueueIdle

----------------------------------------------------------------------------
(* Specifications. *)

\* receive_file alone
RecvOthers == <<peerVars, waitVars, cfgVars, srvVars, cliVars, engVars,
               wireVars,
    diffVars, queueVars, auxVars>>

RecvNext ==
    \/ RecvFileReq /\ UNCHANGED RecvOthers
    \/ RecvOpen /\ UNCHANGED RecvOthers
    \/ RecvChunk /\ UNCHANGED RecvOthers
    \/ RecvFileEnd /\ UNCHANGED RecvOthers
    \/ RecvBadFrame /\ UNCHANGED RecvOthers

SpecRecvInit ==
    RecvInit /\ PeersInit /\ WaitInit /\ CfgFixed /\ SrvInit /\ CliIdle /\ EngIdle
    /\ DiffIdle /\ QueueIdle /\ AuxIdle
SpecRecv == SpecRecvInit /\ [][RecvNext]_vars

\* PeerInfo under any sequence of callers, with waiters and the gate
LatchOthers == <<recvVars, cfgVars, srvVars, cliVars, engVars, wireVars,
    diffVars, queueVars, auxVars>>

LatchNext ==
    \/ CallMarkHandshake /\ UNCHANGED LatchOthers
    \/ CallMarkHeartbeat /\ UNCHANGED LatchOthers
    \/ CallMarkError /\ UNCHANGED LatchOthers
    \/ CallMarkDisconnected /\ UNCHANGED LatchOthers
    \/ ExtraWaitCall /\ UNCHANGED LatchOthers
    \/ AnyWaitResume /\ UNCHANGED LatchOthers
    \/ GateCall /\ UNCHANGED LatchOthers
    \/ AnyChildStart /\ UNCHANGED LatchOthers
    \/ GateFinish /\ UNCHANGED LatchOthers

SpecLatchInit ==
    RecvIdle /\ PeersInit /\ WaitInit /\ CfgFixed /\ SrvInit /\ CliIdle /\ EngIdle
    /\ DiffIdle /\ QueueIdle /\ AuxIdle
SpecLatch == SpecLatchInit /\ [][LatchNext]_vars

\* The event loop runs every callback that is ready: a resolved waiter is
\* resumed, a created task is started, a completed gather is delivered.
LatchFairness ==
    /\ \A w \in Waiters : WF_vars(WaitResume(w) /\ UNCHANGED LatchOthers)
    /\ \A c \in Children : WF_vars(ChildStart(c) /\ UNCHANGED LatchOthers)
    /\ WF_vars(GateFinish /\ UNCHANGED LatchOthers)

FairSpecLatch == SpecLatch /\ LatchFairness

\* the server accept loop with any clients
SrvOthers == <<recvVars, cfgVars, cliVars, engVars, wireVars,
    diffVars, queueVars, auxVars>>

\* what the first read of a connection yields
SrvHelloInput(c) ==
    \/ \E kind \in {"timeout", "proto"} :
          SrvHello(c, kind, CHOOSE m \in HelloFrames : TRUE)
    \/ \E msg \in HelloFrames : SrvHello(c, "frame", msg)

ServerNext ==
    \/ \E c \in Conns, fp \in Fingerprints \cup {Null} :
          SrvAccept(c, fp) /\ UNCHANGED SrvOthers
    \/ \E c \in Conns : SrvHelloInput(c) /\ UNCHANGED SrvOthers
    \/ \E c \in Conns : SrvMarkHandshake(c) /\ UNCHANGED SrvOthers
    \/ \E c \in Conns, frame \in ServeFrames :
          SrvServeFrame(c, frame) /\ UNCHANGED SrvOthers
    \/ \E c \in Conns,
          cause \in {"timeout", "proto", "bad_heartbeat", "cancelled"} :
          SrvServeEnd(c, cause) /\ UNCHANGED SrvOthers
    \/ \E c \in Conns : SrvClosing(c) /\ UNCHANGED SrvOthers

SpecServerInit ==
    RecvIdle /\ PeersInit /\ WaitInit /\ CfgAny /\ SrvInit /\ CliIdle /\ EngIdle
    /\ DiffIdle /\ QueueIdle /\ AuxIdle
SpecServer == SpecServerInit /\ [][ServerNext]_vars

\* the client connector against any server
CliOthers == <<recvVars, cfgVars, srvVars, engVars, wireVars,
    diffVars, queueVars, auxVars>>

\* what the read of the answer to HELLO yields
CliAckInput(p) ==
    \/ \E kind \in {"timeout", "proto"} :
          CliAck(p, kind, CHOOSE m \in AckFrames : TRUE)
    \/ \E ack \in AckFrames : CliAck(p, "frame", ack)

ClientNext ==
    \/ \E p \in ClientPeers, fp \in Fingerprints,
          result \in {"timeout", "refused", "no_ssl", "connected"} :
          CliConnect(p, result, fp) /\ UNCHANGED CliOthers
    \/ \E p \in ClientPeers : CliAckInput(p) /\ UNCHANGED CliOthers
    \/ \E p \in ClientPeers,
          what \in {"heartbeat_sent", "heartbeat_received", "other_received",
                    "read_timeout"} :
          CliSessionStep(p, what) /\ UNCHANGED CliOthers
    \/ \E p \in ClientPeers, half \in {"sender", "receiver"},
          cause \in HalfCauses :
          CliHalfRaise(p, half, cause) /\ UNCHANGED CliOthers
    \/ \E p \in ClientPeers : CliSessionEnd(p) /\ UNCHANGED CliOthers
    \/ \E p \in ClientPeers : CliHandleFailure(p) /\ UNCHANGED CliOthers
    \/ \E p \in ClientPeers : CliWake(p) /\ UNCHANGED CliOthers

SpecClientInit ==
    RecvIdle /\ PeersInit /\ WaitInit /\ CfgAny /\ SrvInit /\ CliInit /\ EngIdle
    /\ DiffIdle /\ QueueIdle /\ AuxIdle
SpecClient == SpecClientInit /\ [][ClientNext]_vars

\* the engine against any remote end that holds a CA-signed certificate
SendOthers == <<recvVars, peerVars, waitVars, cfgVars, srvVars, cliVars,
                wireVars,
    diffVars, queueVars, auxVars>>

SendNext ==
    \/ EngCancelRequest /\ UNCHANGED SendOthers
    \/ EngWorkerGet /\ UNCHANGED SendOthers
    \/ EngRunTask /\ UNCHANGED SendOthers
    \/ \E result \in {"refused", "connected"}, fp \in Fingerprints :
          EngConnect(result, fp) /\ UNCHANGED SendOthers
    \/ \E kind \in {"proto", "frame"}, ack \in AckFrames :
          EngAck(kind, ack) /\ UNCHANGED SendOthers
    \/ \E kind \in {"proto", "frame"}, meta \in MetaFrames :
          EngMeta(kind, meta) /\ UNCHANGED SendOthers
    \/ \E kind \in {"proto", "frame"}, ack \in ChunkAckFrames :
          EngChunkAck(kind, ack) /\ UNCHANGED SendOthers
    \/ \E kind \in {"proto", "frame"}, frame \in EndFrames :
          EngEndAck(kind, frame) /\ UNCHANGED SendOthers
    \/ EngFail /\ UNCHANGED SendOthers
    \/ EngRequeue /\ UNCHANGED SendOthers

SpecSendInit ==
    /\ RecvIdle /\ PeersInit /\ WaitInit /\ CfgAny /\ SrvInit /\ CliIdle
    /\ EngInit(TaskPeers, {MaxRetries}, {OneDelay}, {FALSE})
    /\ DiffIdle /\ QueueIdle /\ AuxIdle
SpecSend == SpecSendInit /\ [][SendNext]_vars

\* End to end: the engine of node A pushes to node B, which runs the server
\* accept loop.  In B's configuration A is PeerList[1]; in A's configuration
\* B is PeerList[2], the peer of the task.  cfgFp, cfgWhitelist and cfgShares
\* are B's configuration; of A's configuration the engine reads only that
\* the task's peer is configured.
FpA == "sha256:aa"
FpB == "sha256:bb"

\* B is reachable, knows A's certificate and grants A the share of the task
CfgE2E ==
    /\ cfgFp \in {f \in [Peers -> Fingerprints \cup {""}] :
                     f[PeerList[1]] = FpA /\ f[PeerList[2]] # FpA}
    /\ cfgWhitelist \in {LoadWhitelist(raw) : raw \in SUBSET RawWhitelistEntries}

\* handshake.build_hello of node A
EngHello ==
    [type |-> "HELLO", node_id |-> PeerList[1], version |-> PROTO_VERSION,
     caps_ok |-> TRUE]

\* the ACK frame of build_ack as the engine's validate_ack reads it
AckOnWire(ack) ==
    [type |-> ack.type, ok |-> ack.ok, peer_id |-> ack.peer_id,
     typed_ok |-> TRUE, shares |-> ack.shares]

\* the engine is inside _send_once, waiting for a frame of the server
EngReading == epc \in {"await_ack", "await_meta", "await_chunk_ack", "await_end"}

\* what the engine wrote when it moved to pc
EngWrote(pc) ==
    IF pc = "await_meta" THEN <<[type |-> "FILE_REQ"]>>
    ELSE IF pc = "await_chunk_ack" THEN <<[type |-> "CHUNK"]>>
    ELSE IF pc = "await_end" THEN <<[type |-> "FILE_END"]>>
    ELSE <<>>

E2EOthers == <<recvVars, cfgVars, cliVars,
    diffVars, queueVars, auxVars>>

E2EWorkerGet ==
    EngWorkerGet /\ UNCHANGED <<peerVars, waitVars, srvVars, wireVars>>

E2ERunTask ==
    EngRunTask /\ UNCHANGED <<peerVars, waitVars, srvVars, wireVars>>

\* the engine connects, B accepts the connection, the engine sends HELLO
E2EConnect ==
    \E c \in Conns :
        /\ conn[c].pc = "free"
        /\ \A d \in Conns : conn[d].pc = "free" => c <= d
        /\ EngConnect("connected", FpB)
        /\ SrvAccept(c, FpA)
        /\ eConn' = c
        /\ a2b' = <<EngHello>>
        /\ b2a' = <<>>

\* B reads the HELLO of the connection and answers
E2ESrvHello ==
    /\ eConn # 0 /\ a2b # <<>>
    /\ SrvHello(eConn, "frame", Head(a2b))
    /\ a2b' = Tail(a2b)
    /\ b2a' = IF conn'[eConn].ack.type = "ACK"
              THEN Append(b2a, AckOnWire(conn'[eConn].ack)) ELSE b2a
    /\ UNCHANGED <<engVars, eConn>>

E2ESrvMarkHandshake ==
    \E c \in Conns : SrvMarkHandshake(c) /\ UNCHANGED <<engVars, wireVars>>

\* B's serving loop reads a frame the engine sent
E2ESrvServeFrame ==
    /\ eConn # 0 /\ a2b # <<>>
    /\ SrvServeFrame(eConn, Head(a2b).type)
    /\ a2b' = Tail(a2b)
    /\ UNCHANGED <<engVars, eConn, b2a>>

\* nothing arrives within 3 * heartbeat_sec: the engine sends no heartbeat
\* and is itself waiting for a frame of B
E2ESrvTimeout ==
    /\ eConn # 0 /\ a2b = <<>> /\ b2a = <<>>
    /\ EngReading
    /\ SrvServeEnd(eConn, "timeout")
    /\ UNCHANGED <<engVars, wireVars>>

E2ESrvClosing ==
    \E c \in Conns : SrvClosing(c) /\ UNCHANGED <<engVars, wireVars>>

\* the engine reads the next frame of B, or the end of the stream once B
\* has closed the connection, and writes what follows
E2EEngRead ==
    /\ EngReading
    /\ \/ /\ b2a # <<>>
          /\ \/ EngAck("frame", Head(b2a))
             \/ EngMeta("frame", Head(b2a))
             \/ EngChunkAck("frame", Head(b2a))
             \/ EngEndAck("frame", Head(b2a))
          /\ b2a' = Tail(b2a)
       \/ /\ b2a = <<>> /\ conn[eConn].closed
          /\ \/ EngAck("proto", Head(<<NoAck>>))
             \/ EngMeta("proto", Head(<<NoAck>>))
             \/ EngChunkAck("proto", Head(<<NoAck>>))
             \/ EngEndAck("proto", Head(<<NoAck>>))
          /\ UNCHANGED b2a
    /\ a2b' = IF epc' \in {"raised", "done"} THEN a2b
              ELSE a2b \o EngWrote(epc')
    /\ UNCHANGED <<peerVars, waitVars, srvVars, eConn>>

E2EEngFail ==
    EngFail /\ UNCHANGED <<peerVars, waitVars, srvVars, wireVars>>

E2EEngRequeue ==
    EngRequeue /\ UNCHANGED <<peerVars, waitVars, srvVars, wireVars>>

E2ENext ==
    \/ E2EWorkerGet /\ UNCHANGED E2EOthers
    \/ E2ERunTask /\ UNCHANGED E2EOthers
    \/ E2EConnect /\ UNCHANGED E2EOthers
    \/ E2ESrvHello /\ UNCHANGED E2EOthers
    \/ E2ESrvMarkHandshake /\ UNCHANGED E2EOthers
    \/ E2ESrvServeFrame /\ UNCHANGED E2EOthers
    \/ E2ESrvTimeout /\ UNCHANGED E2EOthers
    \/ E2ESrvClosing /\ UNCHANGED E2EOthers
    \/ E2EEngRead /\ UNCHANGED E2EOthers
    \/ E2EEngFail /\ UNCHANGED E2EOthers
    \/ E2EEngRequeue /\ UNCHANGED E2EOthers

SpecE2EInit ==
    /\ RecvIdle /\ PeersInit /\ WaitInit /\ CfgE2E /\ SrvInit /\ CliIdle
    /\ EngInit({PeerList[2]}, {MaxRetries}, {OneDelay}, {FALSE})
    /\ DiffIdle /\ QueueIdle /\ AuxIdle
SpecE2E == SpecE2EInit /\ [][E2ENext]_vars

\* Both event loops keep running: a step that can be taken is taken.
FairSpecE2E == SpecE2E /\ WF_vars(E2ENext)

\* compare_manifests on any two manifests, called both ways round
DiffOthers == <<recvVars, peerVars, waitVars, cfgVars, srvVars, cliVars,
                engVars, wireVars, queueVars, auxVars>>

DiffNext ==
    \/ DiffCompare /\ UNCHANGED DiffOthers
    \/ DiffCompareSwapped /\ UNCHANGED DiffOthers

SpecDiffInit ==
    /\ RecvIdle /\ PeersInit /\ WaitInit /\ CfgFixed /\ SrvInit /\ CliIdle
    /\ EngIdle /\ DiffInit /\ QueueIdle /\ AuxIdle
SpecDiff == SpecDiffInit /\ [][DiffNext]_vars

\* The life of one task under the engine: retries, cancellation by
\* cancel(task_id) and by the `cancel` command, and the end of the transfer.
\* The remote end either answers each frame as the protocol expects or the
\* read fails.
EngineOthers == <<recvVars, peerVars, waitVars, cfgVars, srvVars, cliVars,
                  wireVars, diffVars, queueVars, auxVars>>

ExpectedAck ==
    [type |-> "ACK", ok |-> TRUE, peer_id |-> tPeer, typed_ok |-> TRUE,
     shares |-> {TaskShare}]
ExpectedMeta == [type |-> "FILE_META", status |-> "ok", resume_offset |-> 0]
ExpectedChunkAck ==
    [type |-> "CHUNK_ACK", chunk |-> sf.chunk_index, status |-> "ok"]
ExpectedEnd == [type |-> "FILE_END", status |-> "ok"]

EngineNext ==
    \/ EngCancelRequest /\ UNCHANGED EngineOthers
    \/ EngCancel /\ UNCHANGED EngineOthers
    \/ EngWorkerGet /\ UNCHANGED EngineOthers
    \/ EngRunTask /\ UNCHANGED EngineOthers
    \/ \E result \in {"refused", "connected"} :
          EngConnect(result, FpB) /\ UNCHANGED EngineOthers
    \/ \E kind \in {"proto", "frame"} :
          EngAck(kind, ExpectedAck) /\ UNCHANGED EngineOthers
    \/ \E kind \in {"proto", "frame"} :
          EngMeta(kind, ExpectedMeta) /\ UNCHANGED EngineOthers
    \/ \E kind \in {"proto", "frame"} :
          EngChunkAck(kind, ExpectedChunkAck) /\ UNCHANGED EngineOthers
    \/ \E kind \in {"proto", "frame"} :
          EngEndAck(kind, ExpectedEnd) /\ UNCHANGED EngineOthers
    \/ EngFail /\ UNCHANGED EngineOthers
    \/ EngRequeue /\ UNCHANGED EngineOthers

SpecEngineInit ==
    /\ RecvIdle /\ PeersInit /\ WaitInit /\ CfgFixed /\ SrvInit /\ CliIdle
    /\ EngInit({PeerList[2]}, 0..MaxRetriesDrawn, BackoffLists, BOOLEAN)
    /\ DiffIdle /\ QueueIdle /\ AuxIdle
SpecEngine == SpecEngineInit /\ [][EngineNext]_vars

\* A transfer between send_file, run by the engine for a task, and
\* receive_file on the other end of the connection: the sender's FILE_REQ
\* has been sent once the engine waits for FILE_META, and the FILE_META the
\* sender reads is the one receive_file sent
PairMeta ==
    /\ rMeta >= 0
    /\ EngMeta("frame", [type |-> "FILE_META", status |-> "ok",
                         resume_offset |-> rMeta])

PairNext ==
    \/ EngWorkerGet /\ UNCHANGED EngineOthers
    \/ EngRunTask /\ UNCHANGED EngineOthers
    \/ EngConnect("connected", FpB) /\ UNCHANGED EngineOthers
    \/ EngAck("frame", ExpectedAck) /\ UNCHANGED EngineOthers
    \/ epc = "await_meta" /\ RecvFileReq /\ UNCHANGED RecvOthers
    \/ RecvOpen /\ UNCHANGED RecvOthers
    \/ PairMeta /\ UNCHANGED EngineOthers

SpecPairInit ==
    /\ RecvInit /\ PeersInit /\ WaitInit /\ CfgFixed /\ SrvInit /\ CliIdle
    /\ EngInit({PeerList[2]}, {MaxRetries}, {OneDelay}, {FALSE})
    /\ DiffIdle /\ QueueIdle /\ AuxIdle
SpecPair == SpecPairInit /\ [][PairNext]_vars

\* The life of one task as in SpecEngine, with stop() called at any moment
StopNext ==
    \/ EngineNext
    \/ EngStop /\ UNCHANGED EngineOthers

SpecStop == SpecEngineInit /\ [][StopNext]_vars

\* enqueue and cancel calls on one engine, with any peer, share and path
QueueOthers == <<recvVars, peerVars, waitVars, cfgVars, srvVars, cliVars,
                 engVars, wireVars, diffVars, auxVars>>

QueueNext ==
    \/ \E peer_id \in Peers, share_name \in ShareNames \cup {"nope"},
          candidate \in Candidates :
          Enqueue(peer_id, share_name, candidate) /\ UNCHANGED QueueOthers
    \/ \E task_id \in 1..MaxEnqueues :
          QueueCancel(task_id) /\ UNCHANGED QueueOthers

SpecQueueInit ==
    /\ RecvIdle /\ PeersInit /\ WaitInit /\ CfgFixed /\ SrvInit /\ CliIdle
    /\ EngIdle /\ DiffIdle /\ QueueIdle /\ AuxIdle
SpecQueue == SpecQueueInit /\ [][QueueNext]_vars

\* send_json and recv_json at the two ends of one stream
FrameOthers == <<baseVars, routeVars, indexVars, ownVars>>

FrameNext ==
    \/ \E obj \in FrameObjects : FrameSend(obj) /\ UNCHANGED FrameOthers
    \/ \E where \in {"header", "payload"} :
          FrameEof(where) /\ UNCHANGED FrameOthers
    \/ FrameRecv /\ UNCHANGED FrameOthers

SpecFrameInit ==
    BaseIdle /\ RouteIdle /\ IndexIdle /\ OwnIdle /\ FrameInit
SpecFrame == SpecFrameInit /\ [][FrameNext]_vars

\* plan_transfers on any diff result and any list of allowed shares
RouteOthers == <<baseVars, frameVars, indexVars, ownVars>>

RouteNext ==
    \/ RoutePlan /\ UNCHANGED RouteOthers

SpecRouteInit ==
    BaseIdle /\ FrameIdle /\ IndexIdle /\ OwnIdle /\ RouteInit
SpecRoute == SpecRouteInit /\ [][RouteNext]_vars

\* build_manifest on any tree, any pattern list, hidden directories
\* ignored or not
IndexOthers == <<baseVars, frameVars, routeVars, ownVars>>

IndexNext ==
    \/ BuildManifest /\ UNCHANGED IndexOthers

SpecIndexInit ==
    BaseIdle /\ FrameIdle /\ RouteIdle /\ OwnIdle /\ IndexInit
SpecIndex == SpecIndexInit /\ [][IndexNext]_vars

\* enqueue calls for one peer and cancel calls while the workers run the
\* tasks
OwnOthers == <<recvVars, peerVars, waitVars, cfgVars, srvVars, cliVars,
               engVars, wireVars, diffVars, frameVars, routeVars, indexVars>>

OwnNext ==
    \/ \E candidate \in OwnCandidates :
          /\ Enqueue(PeerList[2], "docs", candidate)
          /\ UNCHANGED <<ownVars, OwnOthers>>
    \/ \E task_id \in 1..MaxEnqueues :
          OwnCancel(task_id) /\ UNCHANGED OwnOthers
    \/ \E w \in AllWorkers : OwnWorkerGet(w) /\ UNCHANGED OwnOthers
    \/ \E w \in AllWorkers, raised \in BOOLEAN :
          OwnAttemptEnd(w, raised) /\ UNCHANGED OwnOthers

SpecOwnInit ==
    /\ RecvIdle /\ PeersInit /\ WaitInit /\ CfgFixed /\ SrvInit /\ CliIdle
    /\ EngIdle /\ DiffIdle /\ QueueIdle
    /\ FrameIdle /\ RouteIdle /\ IndexIdle /\ OwnInit
SpecOwn == SpecOwnInit /\ [][OwnNext]_vars

\* The workers and tasks enqueued for any peer id: enqueue does not look the
\* peer up (lines 103-138), and _get_queue makes a queue for any id (lines
\* 75-80; a queue not made yet is an empty one here), while run_forever
\* starts workers for the configured peers only (lines 290-293)
EnqueuePeers == {PeerList[2], "px"}

HandleInit ==
    /\ RecvIdle /\ PeersInit /\ WaitInit /\ CfgFixed /\ SrvInit /\ CliIdle
    /\ EngIdle /\ DiffIdle
    /\ task_seq = 0 /\ tasks = <<>> /\ snapshot = <<>>
    /\ queues = [p \in Peers \cup EnqueuePeers |-> <<>>]
    /\ enqCalls = 0 /\ enqLast = NoEnqueue /\ enqIds = <<>>
    /\ FrameIdle /\ RouteIdle /\ IndexIdle /\ OwnInit

HandleGet == \E w \in AllWorkers : OwnWorkerGet(w) /\ UNCHANGED OwnOthers
HandleEnd ==
    \E w \in AllWorkers, raised \in BOOLEAN :
        OwnAttemptEnd(w, raised) /\ UNCHANGED OwnOthers

HandleNext ==
    \/ \E peer_id \in EnqueuePeers :
          /\ Enqueue(peer_id, "docs", [absolute |-> FALSE,
                                       parts |-> <<"a.txt">>])
          /\ UNCHANGED <<ownVars, OwnOthers>>
    \/ HandleGet
    \/ HandleEnd

SpecHandle == HandleInit /\ [][HandleNext]_vars

\* a worker whose queue holds a task takes it, and every transfer attempt
\* comes to an end
FairSpecHandle == SpecHandle /\ WF_vars(HandleGet) /\ WF_vars(HandleEnd)

\* The workers and the task table with stop() called at any moment
OwnStopNext ==
    \/ OwnNext
    \/ OwnStop /\ UNCHANGED OwnOthers

SpecOwnStop == SpecOwnInit /\ [][OwnStopNext]_vars

\* The workers and the task table over restarts of the process
RestartNext ==
    \/ OwnNext
    \/ OwnRestart /\ UNCHANGED OwnOthers

SpecRestart == SpecOwnInit /\ [][RestartNext]_vars

\* The client connector of a node and one connection its server accepts,
\* which share the peer states
SessionNext ==
    \/ \E fp \in Fingerprints \cup {Null} :
          SrvAccept(1, fp) /\ UNCHANGED SrvOthers
    \/ SrvHelloInput(1) /\ UNCHANGED SrvOthers
    \/ SrvMarkHandshake(1) /\ UNCHANGED SrvOthers
    \/ \E frame \in ServeFrames :
          SrvServeFrame(1, frame) /\ UNCHANGED SrvOthers
    \/ \E cause \in {"timeout", "proto", "bad_heartbeat", "cancelled"} :
          SrvServeEnd(1, cause) /\ UNCHANGED SrvOthers
    \/ SrvClosing(1) /\ UNCHANGED SrvOthers
    \/ ClientNext

\* two configurations: no peer has a pinned certificate, or each has its own
CfgSession ==
    /\ cfgFp \in {[p \in Peers |-> ""],
                  [p \in Peers |-> IF p = PeerList[1] THEN "sha256:aa"
                                   ELSE "sha256:bb"]}
    /\ cfgWhitelist = {}

SpecSessionInit ==
    RecvIdle /\ PeersInit /\ WaitInit /\ CfgSession /\ SrvInit /\ CliInit
    /\ EngIdle
    /\ DiffIdle /\ QueueIdle /\ AuxIdle
SpecSession == SpecSessionInit /\ [][SessionNext]_vars

----------------------------------------------------------------------------
(* C1: whenever receive_file returns normally, the file at out_path is the *)
(* sender's file: its hash equals FILE_END.hash and its length equals      *)
(* FILE_END.bytes, for every initial content of out_path, every            *)
(* resume_offset and every sequence of CHUNK frames.                       *)
C1_ReceivedFileIsSendersFile ==
    rpc = "done" =>
        /\ Sha256(disk) = rEnd.hash
        /\ Len(disk) = rEnd.bytes

----------------------------------------------------------------------------
(* C8: handshake latch liveness.  Once mark_handshake has been called on a *)
(* peer state, every wait_handshake() call on it eventually completes: a   *)
(* call that is pending (started before) and a call that starts after.     *)
C8_LatchLiveness ==
    \A w \in Waiters :
        (wpc[w] \in {"waiting", "ready"} /\ hsCalled[wTarget[w]])
            ~> (wpc[w] = "done")

\* two calls on the same peer state, both started before mark_handshake,
\* have completed
C8_Witness ==
    \E w1 \in Waiters, w2 \in Waiters :
        /\ w1 # w2 /\ wTarget[w1] = wTarget[w2]
        /\ wpc[w1] = "done" /\ wpc[w2] = "done"
        /\ wSuspended[w1] /\ wSuspended[w2]
        /\ hsCalled[wTarget[w1]]
        /\ \E w3 \in Waiters :
              /\ w3 \notin {w1, w2} /\ wpc[w3] = "done" /\ ~wSuspended[w3]

(* C9: handshake latch safety.  No wait_handshake() call completes (or is  *)
(* released) before mark_handshake has been called on its peer state, and  *)
(* once set the latch stays set across mark_error, mark_disconnected,      *)
(* mark_heartbeat and further mark_handshake calls.                        *)
C9_LatchSafety ==
    /\ \A w \in Waiters :
          wpc[w] \in {"ready", "done"} => hsCalled[wTarget[w]]
    /\ \A p \in Peers : hsCalled[p] => peer_states[p].handshake_event

\* the latch is set on a peer that has since recorded an error
C9_Witness ==
    \E p \in Peers :
        /\ hsCalled[p] /\ peer_states[p].handshake_event
        /\ peer_states[p].last_error # Null
        /\ \E w \in Waiters : wTarget[w] = p /\ wpc[w] = "done"

(* C10: once-handshake gate.  wait_all_handshakes completes only if every  *)
(* configured peer's latch has been set, and once every latch has been set *)
(* a started wait_all_handshakes does complete, also when peers have       *)
(* disconnected again.                                                     *)
C10_GateIffAllHandshakes ==
    /\ [](gate = "done" => \A p \in Peers : hsCalled[p])
    /\ ((gate = "waiting" /\ \A p \in Peers : hsCalled[p]) ~> (gate = "done"))

\* the gate completed although every peer is disconnected again
C10_Witness ==
    /\ gate = "done"
    /\ \A p \in Peers : hsCalled[p] /\ ~peer_states[p].connected

----------------------------------------------------------------------------
(* C3: the server sends ACK ok=true and calls mark_handshake only if the   *)
(* connection's certificate fingerprint equals the configured fingerprint  *)
(* of the peer it is matched to or, for a peer matched by node_id, is in   *)
(* the global whitelist; every other connection that presented a valid     *)
(* HELLO gets ACK ok=false and is closed without releasing the latch.      *)
C3_AckOkOnlyIfAuthorized ==
    \A c \in Conns :
        /\ (conn[c].ack.ok \/ conn[c].marked) =>
              /\ conn[c].peer_cfg # Null
              /\ \/ conn[c].fp = cfgFp[conn[c].peer_cfg]
                 \/ /\ conn[c].matched_by = "node_id"
                    /\ fingerprint_in_whitelist(conn[c].fp, cfgWhitelist)
        /\ (conn[c].hello_ok /\ ~conn[c].ack.ok) =>
              /\ conn[c].ack.type = "ACK"
              /\ conn[c].closed
              /\ ~conn[c].marked

(* C4: every accepted connection whose first frame is missing within the   *)
(* deadline, is not a valid frame or fails HELLO validation is answered    *)
(* with ACK ok=false and closed, and mark_handshake is never called for it.*)
C4_InvalidHelloRejected ==
    \A c \in Conns :
        (conn[c].fp # Null /\ ~conn[c].hello_ok
            /\ conn[c].pc \notin {"free", "await_hello"}) =>
              /\ conn[c].ack.type = "ACK" /\ ~conn[c].ack.ok
              /\ conn[c].closed
              /\ ~conn[c].marked

----------------------------------------------------------------------------
(* C6: backoff reset.  After a connection that completed the handshake has *)
(* ended, the attempt index of the peer's connector loop is 0, and the     *)
(* sleep after the next failed connection is backoff[0], whatever number   *)
(* of failures preceded the successful connection.                         *)
C6_BackoffReset ==
    \A p \in ClientPeers :
        /\ (cHandshook[p] /\ cpc[p] \in {"failed", "sleep"}) => attempt[p] = 0
        /\ (everOk[p] /\ ~cHandshook[p] /\ consec[p] = 1 /\ cpc[p] = "sleep")
              => delay[p] = Backoff[1]

(* C7: backoff saturation.  The n-th consecutive failed connection of a    *)
(* peer, counted from the last successful connection, is followed by a     *)
(* sleep of backoff[min(n-1, len(backoff)-1)]: 1, 3, 10, 30, 30, ...       *)
C7_BackoffSaturation ==
    \A p \in ClientPeers :
        (cpc[p] = "sleep" /\ ~cHandshook[p]) =>
            /\ consec[p] >= 1
            /\ delay[p] = Backoff[Min(consec[p] - 1, Len(Backoff) - 1) + 1]

----------------------------------------------------------------------------
(* C5: the transfer engine sends FILE_REQ, CHUNK and FILE_END frames of a  *)
(* task only over a connection whose peer certificate fingerprint passes   *)
(* the client-side check of the handshake: equal to the fingerprint        *)
(* configured for the peer when there is one, else in the whitelist.       *)
C5_SendOnlyOverCheckedConnection ==
    \A sent \in eSentOver : ClientFingerprintCheck(tPeer, sent[2]) = "ok"

(* C2: end-to-end send.  A push task enqueued on node A for the configured *)
(* peer B, where B runs the server accept loop, is reachable, accepts A's  *)
(* HELLO and lists the share in its ACK, eventually reaches status success *)
(* and A appends an audit event with status success.                       *)
C2_EndToEndSendSucceeds ==
    <>(/\ tStatus = "success"
       /\ \E i \in 1..Len(audit) : audit[i] = "success")

----------------------------------------------------------------------------
(* C11: differ tie-break.  For every path present in both manifests whose  *)
(* two entries have non-empty and equal hashes, compare_manifests does not *)
(* list the path in modified, whatever the two mtimes are.                 *)
C11_EqualHashesNotModified ==
    dpc # "in" =>
        \A path \in DOMAIN entry_map(dLocal) \cap DOMAIN entry_map(dRemote) :
            LET local_entry == entry_map(dLocal)[path]
                remote_entry == entry_map(dRemote)[path]
            IN  (local_entry.hash # "" /\ local_entry.hash = remote_entry.hash)
                    => \A i \in DOMAIN dResult.modified :
                          dResult.modified[i] # path

(* C12: differ symmetry.  compare_manifests(A, B).added equals             *)
(* compare_manifests(B, A).deleted and vice versa, and the two modified    *)
(* lists are equal as sets, for all manifests A and B.                     *)
C12_DiffSymmetry ==
    dpc = "both" =>
        /\ dResult.added = dSwapped.deleted
        /\ dResult.deleted = dSwapped.added
        /\ {dResult.modified[i] : i \in DOMAIN dResult.modified}
              = {dSwapped.modified[i] : i \in DOMAIN dSwapped.modified}

----------------------------------------------------------------------------
\* the number of audit events with the given status
AuditCount(status) == Cardinality({i \in DOMAIN audit : audit[i] = status})

(* C13: engine retry bound.  A task nobody cancels, whose every transfer   *)
(* attempt raises, is attempted exactly max_retries + 1 times; after the   *)
(* k-th failure with k <= max_retries the worker sleeps                    *)
(* retry_backoff[min(k-1, len-1)] and re-enqueues the task; after failure  *)
(* max_retries + 1 the task ends in status failed, is not re-enqueued and  *)
(* exactly one audit event with status failed is emitted; retries never    *)
(* exceeds max_retries + 1.                                                *)
C13_RetryBound ==
    /\ tRetries <= max_retries + 1
    /\ eAttempts <= max_retries + 1
    /\ AuditCount("failed") <= 1
    /\ (tRetries >= 1 /\ tRetries <= max_retries /\ retry_backoff # <<>>) =>
          eDelay = retry_backoff[Min(tRetries - 1, Len(retry_backoff) - 1) + 1]
    /\ epc = "retry_sleep" =>
          /\ tRetries >= 1 /\ tRetries <= max_retries
          /\ eDelay > 0
    /\ (tRetries >= 1 /\ tRetries <= max_retries /\ ~eFlagWritten
            /\ epc = "idle") => inQueue
    /\ (epc = "done" /\ ~eFlagWritten /\ tStatus # "success") =>
          /\ eAttempts = max_retries + 1
          /\ tRetries = max_retries + 1
          /\ tStatus = "failed"
          /\ ~inQueue
          /\ AuditCount("failed") = 1
    /\ AuditCount("failed") = 1 => (tRetries = max_retries + 1 /\ ~inQueue)

\* a task failed for good after three attempts, the second retry slept the
\* last delay of a one-element retry_backoff
C13_Witness ==
    /\ epc = "done" /\ ~eFlagWritten /\ tStatus = "failed"
    /\ max_retries = 2 /\ eAttempts = 3 /\ tRetries = 3
    /\ retry_backoff = OneDelay /\ eDelay = OneDelay[1]
    /\ AuditCount("failed") = 1

(* C14: a task's status is failed only when its retries are exhausted      *)
(* (retries > max_retries): a failing attempt that will be retried takes   *)
(* the task from running to queued without an observable failed state.     *)
C14_FailedOnlyWhenExhausted ==
    (EngSuspended /\ tStatus = "failed") => tRetries > max_retries

(* C15: cancelled tasks do not retry.  Once cancel(task_id) has returned   *)
(* True, or a cancel flag file of the task has been written, no new        *)
(* transfer attempt is started for the task, whether it was queued,        *)
(* running or sleeping in retry backoff at the time.                       *)
C15_NoAttemptAfterCancel ==
    [][(eFlagWritten \/ eCancelReturned) => eAttempts' = eAttempts]_vars

\* a task cancelled by cancel(task_id) after a failed attempt was put back
\* on the queue and a worker dropped it there
C15_Witness ==
    /\ eCancelReturned /\ tRetries >= 1 /\ eHandled # "no"
    /\ epc = "done" /\ eAttempts = 1 /\ max_retries >= 1

(* C16: cancel is terminal.  After cancel(task_id) returned True the       *)
(* task's status is cancelled in every later state and the session record  *)
(* of the task is never deleted by finalize afterwards.                    *)
C16_CancelIsTerminal ==
    [][eCancelReturned =>
          /\ tStatus' = "cancelled"
          /\ recExists => recExists']_vars

(* C17: cancel flags are consumed.  Once a worker has dequeued a task      *)
(* whose cancellation was requested and handled the cancellation, the      *)
(* task's cancel flag file no longer exists.                               *)
C17_FlagConsumed ==
    eHandled # "flag_left"

(* C20: when a task is marked success its session record does not exist    *)
(* and no .part file of it exists, and exactly one audit event with status *)
(* success is appended for the task over its lifetime, none for an attempt *)
(* that failed.                                                            *)
C20_SuccessFinalized ==
    /\ tStatus = "success" =>
          /\ ~recExists /\ ~partExists
          /\ AuditCount("success") = 1
    /\ AuditCount("success") <= 1
    /\ AuditCount("success") = 1 =>
          (epc = "done" /\ tStatus \in {"success", "cancelled"})

\* a task succeeded at its second attempt, with a .part file and a record
\* of the first attempt's progress to clean up
C20_Witness ==
    /\ tStatus = "success" /\ tRetries >= 1 /\ tBytesDone = Len(SrcFile)
    /\ AuditCount("success") = 1 /\ AuditCount("failed") = 0

----------------------------------------------------------------------------
(* C18: task ids.  Within one engine every successful enqueue returns a    *)
(* task_id strictly greater than every id returned before, so ids are      *)
(* unique in the task table, and every persisted queue snapshot lists the  *)
(* tasks in strictly ascending task_id order.                              *)
C18_TaskIdsAscending ==
    /\ \A i, j \in DOMAIN enqIds : i < j => enqIds[i] < enqIds[j]
    /\ \A k \in DOMAIN tasks : tasks[k].task_id = k
    /\ Cardinality(DOMAIN tasks) = Len(enqIds)
    /\ Len(snapshot) = Len(enqIds)
    /\ \A n \in 1..(Len(snapshot) - 1) :
          snapshot[n].task_id < snapshot[n + 1].task_id

\* two tasks registered around an enqueue that raised, one cancelled since
C18_Witness ==
    /\ Len(enqIds) = 2 /\ enqCalls = 3 /\ Len(snapshot) = 2
    /\ \E n \in DOMAIN snapshot : snapshot[n].status = "cancelled"

----------------------------------------------------------------------------
(* C21: the receiver rejects out-of-order chunks.  receive_file writes the *)
(* payload of a CHUNK frame only if its chunk id is one more than the id   *)
(* of the chunk written before and its offset is the current write         *)
(* position; a re-sent copy of a written chunk is not written again.       *)
C21_ChunksInOrder ==
    \A i \in DOMAIN rAccepted :
        /\ rAccepted[i].offset = rAccepted[i].at
        /\ i > 1 => rAccepted[i].chunk = rAccepted[i - 1].chunk + 1

(* C23: resume clamp.  The resume_offset receive_file reports in FILE_META *)
(* never exceeds the number of bytes present in the file at out_path (0    *)
(* when the file is missing).                                              *)
C23_MetaResumeClamped ==
    rpc = "open" => rMeta <= Len(disk)

(***************************************************************************)
(* C22: chunk retry bound of send_file.  A chunk whose answer is missing,  *)
(* is for another chunk id, is not a CHUNK_ACK or has a status other than  *)
(* ok is sent again at most max_retries times, the i-th resend comes after *)
(* a sleep of retry_backoff[min(i-1, len-1)], and send_file raises         *)
(* ProtocolError for a chunk only when it has sent that chunk again        *)
(* max_retries times.                                                      *)
(***************************************************************************)
C22_ChunkRetryBound ==
    /\ sf.resent <= max_retries
    /\ Len(sf.slept) = sf.resent
    /\ \A i \in DOMAIN sf.slept : sf.slept[i] = ChunkDelay(i)
    /\ (epc = "raised" /\ tError \in {"chunk ack mismatch", "chunk rejected"})
          => sf.resent = max_retries

(***************************************************************************)
(* C24: frame round trip.  Every frame send_json wrote and the stream      *)
(* delivered whole is accepted by recv_json and decodes to the object that *)
(* was sent, and no frame send_json wrote has a body longer than the       *)
(* 8 MiB cap of recv_json.                                                 *)
(***************************************************************************)
C24_FrameRoundTrip ==
    \A i \in DOMAIN fLog :
        /\ fLog[i].length <= max_size
        /\ fLog[i].cut = "none" =>
              (fLog[i].got.ok /\ fLog[i].got.obj = fLog[i].sent)

\* the paths of a list of paths
PathsOf(list) == {list[i] : i \in DOMAIN list}

\* number of descriptors of pTasks for (share, path)
PlannedCount(share, path) ==
    Cardinality({i \in DOMAIN pTasks :
                    pTasks[i].share = share /\ pTasks[i].relative_path = path})

(***************************************************************************)
(* C25: plan_transfers returns exactly one descriptor, with mode push and  *)
(* the peer's id, for each path in added or modified of each share of the  *)
(* diff result that is in allowed_shares, and none for a path that is only *)
(* in deleted or whose share is not in allowed_shares.                     *)
(***************************************************************************)
C25_RouterPlan ==
    ppc = "done" =>
        /\ \A i \in DOMAIN pTasks :
              pTasks[i].mode = "push" /\ pTasks[i].peer_id = pPeer
        /\ \A share \in RouteShares \cup {"other"}, path \in DiffPathSet :
              PlannedCount(share, path) =
                  IF /\ share \in DOMAIN pDiff
                     /\ share \in pAllowed
                     /\ path \in PathsOf(pDiff[share].added)
                                 \cup PathsOf(pDiff[share].modified)
                  THEN 1 ELSE 0

\* a plan with a descriptor, made while one share with an added path is
\* not allowed and an allowed share has a path that is only deleted
C25_Witness ==
    /\ ppc = "done" /\ pTasks # <<>>
    /\ \E share \in DOMAIN pDiff :
          share \notin pAllowed /\ pDiff[share].added # <<>>
    /\ \E share \in DOMAIN pDiff :
          share \in pAllowed /\ pDiff[share].deleted # <<>>

\* the share tree {.hidden/secret, build/x.o, src/main.c}
ExampleTree ==
    [p \in TreePaths |->
        IF p \in {<<N_hidden, N_secret>>, <<N_build, N_x_o>>,
                  <<N_src, N_main_c>>}
        THEN "reg" ELSE "absent"]

\* the path has a component ".."
HasDotDot(path) ==
    LET t == <<"/">> \o path \o <<"/">>
    IN  \E i \in 1..(Len(t) - 3) : SubSeq(t, i, i + 3) = <<"/", ".", ".", "/">>

\* the regular files of the tree outside every pruned directory and
\* matched by no ignore pattern
ExpectedFiles ==
    {p \in TreePaths :
        /\ iTree[p] = "reg"
        /\ \A k \in 1..(Len(p) - 1) :
              ~dir_ignored(SubSeq(p, 1, k), iPatterns, iHidden)
        /\ ~should_ignore(as_posix(p), iPatterns)}

C27_StopLeavesCancelled ==
    eStopAt # "none" =>
        /\ epc = "stopped"
        /\ tStatus # "running"
        /\ eStopAt \in EngInFlight => tStatus = "cancelled"

(***************************************************************************)
(* C28: exclusive ownership of the transfer files.  No two tasks with the  *)
(* same (peer, share, absolute_path), hence the same session record and    *)
(* .part file, are in a transfer attempt at the same time, also when the   *)
(* same file is enqueued twice and max_concurrent_per_peer > 1.            *)
(***************************************************************************)
C28_ExclusiveOwnership ==
    \A w1, w2 \in AllWorkers :
        (w1 # w2 /\ wRun[w1] # 0 /\ wRun[w2] # 0) =>
            SessionKey(tasks[wRun[w1]]) # SessionKey(tasks[wRun[w2]])

(***************************************************************************)
(* C29: when a server-accepted session that reached the serving loop ends  *)
(* because a read timed out or because of a protocol error (bad frame,     *)
(* EOF, invalid HEARTBEAT), the closing step leaves the matched peer state *)
(* with connected = false and a non-null last_error.                       *)
(***************************************************************************)
C29_ServeEndSetsLastError ==
    [][\A c \in Conns :
          (/\ conn[c].pc = "closing" /\ conn'[c].pc = "closed"
           /\ conn[c].error_message # Null
           /\ conn[c].peer_state # Null)
          => /\ ~peer_states'[conn[c].peer_state].connected
             /\ peer_states'[conn[c].peer_state].last_error # Null]_vars

(***************************************************************************)
(* C30: handshake before heartbeat.  No heartbeat timestamp is recorded on *)
(* a peer state before the first mark_handshake on that state, and within  *)
(* a session, server-accepted or client-initiated, a HEARTBEAT is sent or  *)
(* accepted only after the session's HELLO/ACK exchange ended with         *)
(* ok = true.                                                              *)
(***************************************************************************)
C30_HandshakeBeforeHeartbeat ==
    /\ \A p \in Peers :
          peer_states[p].last_heartbeat_ts # Null => hsCalled[p]
    /\ \A r \in hbLog : r.ok /\ r.marked

\* heartbeats have been stamped on one peer state by a server-accepted
\* session and by a client-initiated one
C30_Witness ==
    \E r1, r2 \in hbLog :
        r1.side = "server" /\ r2.side = "client" /\ r1.peer = r2.peer

(***************************************************************************)
(* C31, as stated: the connector reaches its session (mark_handshake) only *)
(* with a server fingerprint that passed the check and an ACK with         *)
(* ok = true and the configured peer id; when the fingerprint check fails  *)
(* no HELLO was sent, the writer is closed and, once _maintain_peer has    *)
(* handled the failure, the peer state has last_error "fingerprint         *)
(* mismatch" and connected = false.                                        *)
(***************************************************************************)
C31_PreconditionsOk(p) ==
    cpc[p] = "session" =>
        /\ \/ cfgFp[p] # "" /\ cFp[p] = cfgFp[p]
           \/ cfgFp[p] = "" /\ fingerprint_in_whitelist(cFp[p], cfgWhitelist)
        /\ Len(cSess[p].ack) = 1
        /\ cSess[p].ack[1].ok
        /\ cSess[p].ack[1].peer_id = p
        /\ hsCalled[p]

C31_CheckFailed(p) == cSess[p].check \notin {Null, "ok"}

C31_ClientHandshakeAsStated ==
    \A p \in Peers :
        /\ C31_PreconditionsOk(p)
        /\ C31_CheckFailed(p) =>
              /\ ~cSess[p].hello
              /\ cSess[p].closed
              /\ cpc[p] = "sleep" =>
                    /\ peer_states[p].last_error = "fingerprint mismatch"
                    /\ ~peer_states[p].connected

(***************************************************************************)
(* C31, amended: the same, with the recorded last_error being              *)
(* "fingerprint mismatch" when the peer has a configured fingerprint that  *)
(* differs from the server's, and "fingerprint not allowed" when the peer  *)
(* has no configured fingerprint and the server's is not in the whitelist. *)
(***************************************************************************)
C31_ClientHandshakePreconditions ==
    \A p \in Peers :
        /\ C31_PreconditionsOk(p)
        /\ C31_CheckFailed(p) =>
              /\ ~cSess[p].hello
              /\ cSess[p].closed
              /\ cpc[p] = "sleep" =>
                    /\ peer_states[p].last_error =
                          (IF cfgFp[p] # "" THEN "fingerprint mismatch"
                           ELSE "fingerprint not allowed")
                    /\ ~peer_states[p].connected

\* a peer that completed a handshake earlier and whose latest connection
\* failed the whitelist check, the failure handled
C31_Witness ==
    \E p \in Peers :
        /\ everOk[p] /\ cpc[p] = "sleep"
        /\ cSess[p].check = "fingerprint not allowed"

(***************************************************************************)
(* C32: when a client session that started its two halves reports its     *)
(* failure to the reconnect loop, neither half is running any more, the    *)
(* writer is closed and the peer has been marked disconnected; a session   *)
(* ends only after one of its halves raised.                               *)
(***************************************************************************)
C32_SessionEndsClean ==
    \A p \in Peers :
        (cpc[p] = "failed" /\ cSess[p].sender # "none") =>
            /\ cSess[p].sender # "running"
            /\ cSess[p].receiver # "running"
            /\ cSess[p].sender \in HalfCauses
                 \/ cSess[p].receiver \in HalfCauses
            /\ cSess[p].closed
            /\ cSess[p].disconnected
            /\ ~peer_states[p].connected

(***************************************************************************)
(* C33: send_file returns normally (the task is marked success) only      *)
(* after, in order: a FILE_META with status ok; every chunk from the       *)
(* effective start offset to the end of the file, sent with chunk ids      *)
(* increasing by one, each answered by a CHUNK_ACK with the same chunk id  *)
(* and status ok; FILE_END sent and answered by FILE_END with status ok.   *)
(***************************************************************************)
ChunksLeft(start) ==
    IF start >= Len(SrcFile) THEN 0
    ELSE (Len(SrcFile) - start + ChunkSize - 1) \div ChunkSize

C33_SenderCompletion ==
    tStatus = "success" =>
        LET log == sf.log
            k == ChunksLeft(sf.start_offset)
        IN /\ Len(log) = 2 * k + 3
           /\ log[1].type = "FILE_META" /\ log[1].status = "ok"
           /\ \A i \in 1..k :
                 /\ log[2 * i].type = "CHUNK sent"
                 /\ log[2 * i].offset = sf.start_offset + (i - 1) * ChunkSize
                 /\ log[2 * i].chunk = log[2].chunk + (i - 1)
                 /\ log[2 * i + 1].type = "CHUNK_ACK"
                 /\ log[2 * i + 1].chunk = log[2 * i].chunk
                 /\ log[2 * i + 1].status = "ok"
           /\ log[2 * k + 2].type = "FILE_END sent"
           /\ log[2 * k + 3].type = "FILE_END"
           /\ log[2 * k + 3].status = "ok"

\* a whole file of more than one chunk was sent and the task succeeded
C33_Witness ==
    /\ tStatus = "success"
    /\ sf.start_offset = 0
    /\ sf.sent_chunks = Len(SrcFile) \div ChunkSize
    /\ sf.sent_chunks > 1

(***************************************************************************)
(* C34: while a session with peer p is in its heartbeat phase, be it a     *)
(* connection the server accepted from p or the connection the client      *)
(* made to p, the state of p has connected = true.                         *)
(***************************************************************************)
ServerSessionLive(p) ==
    \E c \in Conns : conn[c].pc = "serving" /\ conn[c].peer_state = p

ClientSessionLive(p) ==
    /\ cpc[p] = "session"
    /\ cSess[p].sender = "running" /\ cSess[p].receiver = "running"

C34_ConnectedWhileLive ==
    \A p \in Peers :
        (ServerSessionLive(p) \/ ClientSessionLive(p))
            => peer_states[p].connected

(***************************************************************************)
(* C35: a worker's flag check marks a task cancelled only if cancel() was  *)
(* called for that task, also after the process was restarted with the     *)
(* flag files of the earlier run still in the sessions directory.          *)
(***************************************************************************)
C35_FlagAffectsOnlyItsTask == oFlagCancelled \subseteq oRequested

(***************************************************************************)
(* C36: with the workers running, every task enqueue returned eventually   *)
(* reaches success, failed or cancelled, whatever peer id it names.        *)
(***************************************************************************)
C36_EveryTaskHandled ==
    \A task_id \in 1..MaxEnqueues :
        (task_id \in DOMAIN tasks) ~>
            (/\ task_id \in DOMAIN tasks
             /\ tasks[task_id].status \in {"success", "failed", "cancelled"})

(***************************************************************************)
(* C37: in a transfer between send_file and receive_file, the offset of    *)
(* the first CHUNK the sender transmits equals the receiver's write        *)
(* position, for every sender-side resume_offset and every receiver-side   *)
(* resume_offset and length of the .part file.                             *)
(***************************************************************************)
C37_StartOffsetAgreement ==
    (/\ epc = "await_chunk_ack" /\ sf.sent_chunks = 0
     /\ rpc = "loop" /\ rChunks = 0)
        => /\ sf.log[2].type = "CHUNK sent"
           /\ sf.log[2].offset = rPos

(***************************************************************************)
(* C38: success is terminal.  A task whose status is success keeps that    *)
(* status in every later state, and no cancel flag file is created for it; *)
(* cancel() leaves the outcome of a task that succeeded or finally failed  *)
(* as recorded.                                                            *)
(***************************************************************************)
C38_SuccessIsTerminal ==
    [][\A task_id \in DOMAIN tasks :
          tasks[task_id].status = "success" =>
              /\ tasks'[task_id].status = "success"
              /\ task_id \in oFlags' => task_id \in oFlags]_vars

(***************************************************************************)
(* C39: snapshot consistency.  Whenever no worker is inside a transfer     *)
(* attempt, or the engine has been stopped, queue.json lists every task of *)
(* the table with the status the task has in memory.                       *)
(***************************************************************************)
C39_SnapshotConsistent ==
    (oStopped \/ \A w \in AllWorkers : wRun[w] = 0) =>
        /\ Len(snapshot) = Cardinality(DOMAIN tasks)
        /\ \A n \in DOMAIN snapshot :
              /\ snapshot[n].task_id \in DOMAIN tasks
              /\ snapshot[n].status = tasks[snapshot[n].task_id].status

\* C40: peer state coherence. Whatever the order of mark_handshake,
\* mark_heartbeat, mark_error and mark_disconnected calls, a peer whose
\* state says connected has no last error and has its handshake latch set:
\* fingerprint, last_hello_ts and last_ack_ts are all present. The snapshot
\* returned by to_dict shows the same, since it is read in one step.
C40_PeerStateCoherent ==
    \A p \in Peers :
        LET snap == to_dict(peer_states[p])
        IN snap.connected =>
              /\ snap.last_error = Null
              /\ snap.fingerprint # Null
              /\ snap.last_hello_ts # Null
              /\ snap.last_ack_ts # Null
              /\ peer_states[p].handshake_event

\* one peer is connected again after an error was recorded and a heartbeat
\* received, while another one has failed after its handshake
C40_Witness ==
    \E p, q \in Peers :
        /\ p # q
        /\ to_dict(peer_states[p]).connected
        /\ to_dict(peer_states[p]).last_heartbeat_ts # Null
        /\ ~to_dict(peer_states[q]).connected
        /\ to_dict(peer_states[q]).last_error # Null
        /\ peer_states[q].handshake_event

====
